---- MODULE Spec2Model ----
(***************************************************************************)
(* Model of the Jira refinement agent: the application lifespan that owns  *)
(* the process-wide MCP client, the webhook boundary that dispatches one   *)
(* background task per accepted trigger, and the agent loop that           *)
(* alternates chat-completion calls and MCP tool calls.                    *)
(*                                                                         *)
(* Python strings are sequences of atoms (TLA+ strings, written without    *)
(* backquotes): an f-string is the concatenation of its literal parts and  *)
(* its interpolated values, and                                            *)
(* "x in s" is membership of an atom in the sequence.  A coroutine runs    *)
(* without interleaving from one await to the next, so an action is the    *)
(* code between two suspension points.  Failures are Python Exceptions;    *)
(* cancellation of a task and the exit of the process are not modelled.    *)
(***************************************************************************)
EXTENDS Integers, Sequences, FiniteSets, TLC

VARIABLES
    lifespan,      \* position of main.lifespan
    session,       \* mcp_jira_client._session
    exit_stack,    \* mcp_jira_client._exit_stack
    client_tools,  \* mcp_jira_client._tools
    list_tools_calls,  \* list_tools requests sent to the tool server so far
    task           \* per request slot: the HTTP exchange and its background task

vars == <<lifespan, session, exit_stack, client_tools, list_tools_calls, task>>

----------------------------------------------------------------------------
(* Bounds of the model *)

\* number of leading iterations in which the chat gateway and the tool
\* server answer freely; later iterations draw from the steady answers
MaxVaried == 1

\* request slots of the base specification
Slots == {1}

----------------------------------------------------------------------------
(* Python values *)

None == <<"\\None">>
EmptyStr == <<>>

\* Python truthiness of a str | None value
Truthy(x) == x # None /\ x # EmptyStr

\* Python `x or d` for a str | None value
PyOr(x, d) == IF Truthy(x) THEN x ELSE d

\* Python `part in s` where part is one atom of the text
Contains(s, part) == \E n \in 1..Len(s) : s[n] = part

RECURSIVE Join(_, _)
\* sep.join(items) for a sequence of texts
Join(sep, items) ==
    IF items = <<>> THEN EmptyStr
    ELSE IF Len(items) = 1 THEN items[1]
    ELSE items[1] \o sep \o Join(sep, Tail(items))

\* [f(x) for x in s]
MapSeq(s, F(_)) == [n \in 1..Len(s) |-> F(s[n])]

----------------------------------------------------------------------------
(* Domain configuration: core/config.py, models/domain.py *)

\* DomainConfig(): every field at its default
DomainConfigDefaults ==
    [ project_name |-> <<"My Product">>,
      repo_url |-> EmptyStr,
      tech_stack |-> <<>>,
      architecture_notes |-> EmptyStr,
      key_modules |-> <<>>,
      ticket_structure |->
          << <<"Background">>, <<"Problem / Current behavior">>,
             <<"Desired behavior">>, <<"Scope">>, <<"Out of scope">>,
             <<"Technical notes (high level)">>, <<"Risks & impact">>,
             <<"Test plan / QA hints">>, <<"Acceptance criteria">> >>,
      user_personas |-> <<>>,
      platforms |-> <<>>,
      standards |-> <<>>,
      acceptance_criteria_style |-> <<"bullet">> ]

\* what the file at DOMAIN_CONFIG_PATH can hold
ConfigFiles == {"missing", "custom", "malformed", "wrong_type"}

\* the files that load, one of them setting the repository fields
PromptConfigFiles == {"missing", "custom", "code"}

\* what it holds when a task of the base specification loads it
DeployedConfigFiles == {"missing", "malformed", "wrong_type"}

\* a loaded YAML mapping: its well-typed fields, and the names of the fields
\* whose value has a type the model's field does not take
YamlEmpty == [fields |-> <<>>, ill_typed |-> {}]

YamlCustom ==
    [ fields |->
        [ project_name |-> <<"Checkout">>,
          repo_url |-> <<"https://git.example/checkout">>,
          user_personas |-> << [name |-> <<"Shopper">>, description |-> <<"buys">>] >>,
          platforms |-> << <<"web">>, <<"ios">> >>,
          standards |-> << << <<"performance">>, <<"p95 < 500ms">> >> >> ],
      ill_typed |-> {} ]

\* a file that sets the repository fields
YamlCode ==
    [ fields |->
        [ tech_stack |-> << <<"Python 3.12">>, <<"FastAPI">> >>,
          architecture_notes |-> <<"One service behind a webhook.">>,
          key_modules |-> << [ name |-> <<"api">>, path |-> <<"src/app/api">>,
                               description |-> <<"HTTP routes">> ] >> ],
      ill_typed |-> {} ]

YamlWrongType ==
    [ fields |-> [project_name |-> <<"Checkout">>], ill_typed |-> {"platforms"} ]

\* yaml.safe_load raises on a file that is not YAML
YamlLoads(file) == file # "malformed"

\* load_domain_config: {} for a missing file, `yaml.safe_load(f) or {}` otherwise
load_domain_config(file) ==
    CASE file = "missing" -> YamlEmpty
      [] file = "custom" -> YamlCustom
      [] file = "code" -> YamlCode
      [] OTHER -> YamlWrongType

\* DomainConfig.model_validate raises on a field of the wrong type
ModelValidates(raw) == raw.ill_typed \cap DOMAIN DomainConfigDefaults = {}

\* DomainConfig.model_validate: the given fields over the defaults
model_validate(raw) ==
    [f \in DOMAIN DomainConfigDefaults |->
        IF f \in DOMAIN raw.fields THEN raw.fields[f] ELSE DomainConfigDefaults[f]]

\* _get_domain_config raises when the file does not load or does not validate
DomainConfigLoads(file) == YamlLoads(file) /\ ModelValidates(load_domain_config(file))

get_domain_config(file) == model_validate(load_domain_config(file))

----------------------------------------------------------------------------
(* Prompt builder: llm/prompts.py *)

\* "\n".join(f"  - {x}" for x in items)
BulletList(items) == Join(<<"\n">>, MapSeq(items, LAMBDA x : <<"  - ">> \o x))

PersonaLine(p) == <<"  - **">> \o p.name \o <<"**: ">> \o p.description
ModuleLine(m) ==
    <<"  - **">> \o m.name \o <<"** (">> \o m.path \o <<"): ">> \o m.description
StandardLine(kv) == <<"  - **">> \o kv[1] \o <<"**: ">> \o kv[2]

\* domain_context that renders the repository section whatever the field holds
domain_context_repo_always(config) ==
    LET sections == BulletList(config.ticket_structure)
        personas == Join(<<"\n">>, MapSeq(config.user_personas, PersonaLine))
        platforms == IF config.platforms # <<>>
                     THEN Join(<<", ">>, config.platforms) ELSE <<"N/A">>
        standards == Join(<<"\n">>, MapSeq(config.standards, StandardLine))
    IN  <<"\n\n## Project context: ">> \o config.project_name \o <<"\n">>
        \o <<"\n### Repository: ">> \o config.repo_url \o <<"\n">>
        \o (IF config.tech_stack # <<>>
            THEN <<"\n### Tech stack:\n">> \o BulletList(config.tech_stack) \o <<"\n">>
            ELSE <<>>)
        \o (IF Truthy(config.architecture_notes)
            THEN <<"\n### Architecture:\n">> \o config.architecture_notes \o <<"\n">>
            ELSE <<>>)
        \o (IF config.key_modules # <<>>
            THEN <<"\n### Key modules:\n">>
                 \o Join(<<"\n">>, MapSeq(config.key_modules, ModuleLine)) \o <<"\n">>
            ELSE <<>>)
        \o <<"\n### Required ticket structure (use these as markdown headings):\n">>
        \o sections
        \o <<"\n\n### Known user personas:\n">>
        \o (IF personas # EmptyStr THEN personas ELSE <<"  (none defined)">>)
        \o <<"\n\n### Target platforms: ">> \o platforms
        \o <<"\n\n### Non-functional standards:\n">>
        \o (IF standards # EmptyStr THEN standards ELSE <<"  (none defined)">>)
        \o <<"\n\n### Acceptance criteria style: ">> \o config.acceptance_criteria_style
        \o <<"\n">>

\* _domain_context: the context block appended to the system prompt
domain_context(config) ==
    LET sections == BulletList(config.ticket_structure)
        personas == Join(<<"\n">>, MapSeq(config.user_personas, PersonaLine))
        platforms == IF config.platforms # <<>>
                     THEN Join(<<", ">>, config.platforms) ELSE <<"N/A">>
        standards == Join(<<"\n">>, MapSeq(config.standards, StandardLine))
    IN  <<"\n\n## Project context: ">> \o config.project_name \o <<"\n">>
        \o (IF Truthy(config.repo_url)
            THEN <<"\n### Repository: ">> \o config.repo_url \o <<"\n">> ELSE <<>>)
        \o (IF config.tech_stack # <<>>
            THEN <<"\n### Tech stack:\n">> \o BulletList(config.tech_stack) \o <<"\n">>
            ELSE <<>>)
        \o (IF Truthy(config.architecture_notes)
            THEN <<"\n### Architecture:\n">> \o config.architecture_notes \o <<"\n">>
            ELSE <<>>)
        \o (IF config.key_modules # <<>>
            THEN <<"\n### Key modules:\n">>
                 \o Join(<<"\n">>, MapSeq(config.key_modules, ModuleLine)) \o <<"\n">>
            ELSE <<>>)
        \o <<"\n### Required ticket structure (use these as markdown headings):\n">>
        \o sections
        \o <<"\n\n### Known user personas:\n">>
        \o (IF personas # EmptyStr THEN personas ELSE <<"  (none defined)">>)
        \o <<"\n\n### Target platforms: ">> \o platforms
        \o <<"\n\n### Non-functional standards:\n">>
        \o (IF standards # EmptyStr THEN standards ELSE <<"  (none defined)">>)
        \o <<"\n\n### Acceptance criteria style: ">> \o config.acceptance_criteria_style
        \o <<"\n">>

NoCommentPlaceholder == <<"(no comment provided)">>

\* build_agent_prompt that returns the user message alone
build_agent_prompt_user_only(issue_key, mode, pm_comment, domain_config) ==
    << [ role |-> "user",
         content |-> <<"Please refine Jira issue **">> \o issue_key \o <<"**.">> ] >>

\* build_agent_prompt that takes the first-pass branch whatever the mode
build_agent_prompt_first_pass(issue_key, mode, pm_comment, domain_config) ==
    << [ role |-> "system",
         content |-> <<"AGENT_SYSTEM_FIRST_PASS">> \o domain_context(domain_config) ],
       [ role |-> "user",
         content |-> <<"Please refine Jira issue **">> \o issue_key \o <<"**.\n\n">>
                     \o <<"Start by reading the issue with the jira_get_issue tool, ">>
                     \o <<"then follow the workflow described in your instructions.">> ] >>

build_agent_prompt(issue_key, mode, pm_comment, domain_config) ==
    LET system ==
            IF mode = <<"first_pass">>
            THEN <<"AGENT_SYSTEM_FIRST_PASS">> \o domain_context(domain_config)
            ELSE <<"AGENT_SYSTEM_FEEDBACK">> \o domain_context(domain_config)
        user_content ==
            IF mode = <<"first_pass">>
            THEN <<"Please refine Jira issue **">> \o issue_key \o <<"**.\n\n">>
                 \o <<"Start by reading the issue with the jira_get_issue tool, ">>
                 \o <<"then follow the workflow described in your instructions.">>
            ELSE <<"The PM has replied to the refinement of **">> \o issue_key
                 \o <<"**.\n\n">>
                 \o <<"**PM's comment:**\n">> \o PyOr(pm_comment, NoCommentPlaceholder)
                 \o <<"\n\n">>
                 \o <<"Start by reading the issue with jira_get_issue to see the ">>
                 \o <<"current state, then incorporate the PM's feedback.">>
    IN  << [role |-> "system", content |-> system],
           [role |-> "user", content |-> user_content] >>

----------------------------------------------------------------------------
(* MCP client, pure parts: jira/mcp_client.py *)

NoSession == "None"
NoExitStack == "None"

\* a tool whose inputSchema is None or {}
NoSchema == [type |-> "none", properties |-> {}]

\* the catalog the mcp-atlassian server answers list_tools with
ServerTools ==
    << [ name |-> <<"jira_get_issue">>, description |-> <<"Get issue">>,
         inputSchema |-> [type |-> "object", properties |-> {"issue_key"}] ],
       [ name |-> <<"jira_add_comment">>, description |-> None,
         inputSchema |-> NoSchema ] >>

\* what list_tools can answer: no tool, the server's catalog, the same in
\* another order, and one tool with an empty description and a schema of no
\* properties
ServerCatalogs ==
    { <<>>,
      ServerTools,
      <<ServerTools[2], ServerTools[1]>>,
      << [ name |-> <<"jira_search">>, description |-> EmptyStr,
           inputSchema |-> [type |-> "object", properties |-> {}] ] >> }

\* OpenAIFunction that passes inputSchema on whatever it is
OpenAIFunctionSchemaAsIs(tool) ==
    [ type |-> "function",
      function |->
          [ name |-> tool.name,
            description |-> PyOr(tool.description, EmptyStr),
            parameters |-> tool.inputSchema ] ]

OpenAIFunction(tool) ==
    [ type |-> "function",
      function |->
          [ name |-> tool.name,
            description |-> PyOr(tool.description, EmptyStr),
            parameters |-> IF tool.inputSchema # NoSchema
                           THEN tool.inputSchema
                           ELSE [type |-> "object", properties |-> {}] ] ]

get_tools_as_openai_functions(tools) == MapSeq(tools, OpenAIFunction)

\* _extract_text: the text items of a result, joined by newlines
extract_text(result) ==
    Join(<<"\n">>,
         MapSeq(SelectSeq(result.content, LAMBDA c : c.type = "text"),
                LAMBDA c : c.text))

NotConnectedError == <<"MCP client not connected. Call start() first.">>

\* what session.call_tool can do with one request
OkReply ==
    [ kind |-> "result", isError |-> FALSE, detail |-> EmptyStr,
      content |-> << [type |-> "text", text |-> <<"{key: PROJ-1}">>],
                     [type |-> "image", text |-> EmptyStr],
                     [type |-> "text", text |-> <<"ok">>] >> ]
ErrorReply ==
    [ kind |-> "result", isError |-> TRUE, detail |-> EmptyStr,
      content |-> << [type |-> "text", text |-> <<"Issue not found">>] >> ]
RaiseReply ==
    [ kind |-> "raise", isError |-> FALSE, detail |-> <<"connection closed">>,
      content |-> <<>> ]

ServerReplies == {OkReply, ErrorReply, RaiseReply}

\* ToolFailed without the look at result.isError
ToolFailedRaiseOnly(reply) == reply.kind = "raise"

\* call_tool after the session answered: the text, or the error it raises
ToolFailed(reply) == reply.kind = "raise" \/ reply.isError

call_tool_error(name, reply) ==
    IF reply.kind = "raise" THEN reply.detail
    ELSE <<"MCP tool '">> \o name \o <<"' failed: ">> \o extract_text(reply)

call_tool_text(reply) == extract_text(reply)

----------------------------------------------------------------------------
(* Chat client, pure parts: llm/client.py *)

\* the argument payloads a model can send, as JSON text
ArgsEmpty == "{}"
ArgsKey == "{\"issue_key\":\"PROJ-1\"}"
ArgsKeySpaced == "{ \"issue_key\": \"PROJ-1\" }"
ArgsTruncated == "{\"issue_key\":"

\* json.loads raises on text that is not JSON
JsonDecodes(text) == text # ArgsTruncated

\* json.loads of an object: its set of (key, value) pairs
json_loads(text) ==
    IF text \in {ArgsKey, ArgsKeySpaced} THEN {<<"issue_key", "PROJ-1">>} ELSE {}

RawToolCall(id, name, arguments) ==
    [id |-> id, function |-> [name |-> name, arguments |-> arguments]]

\* ToolCall that drops the decoded arguments
ToolCallNoArguments(tc) == [id |-> tc.id, name |-> tc.function.name, arguments |-> {}]

\* ToolCall(id, name, arguments) built from one raw tool call
ToolCall(tc) ==
    [id |-> tc.id, name |-> tc.function.name, arguments |-> json_loads(tc.function.arguments)]

\* a failure of chat.completions.create, or of decoding its answer
TransportError == [kind |-> "error", content |-> None, tool_calls |-> <<>>]

RawMessage(content, tool_calls) ==
    [kind |-> "message", content |-> content, tool_calls |-> tool_calls]

\* LLMRaises with a decoder that never raises
LLMRaisesTransportOnly(reply) == reply.kind = "error"

\* call_llm_with_tools raises: the transport failed, or an argument payload
\* of a requested tool call is not JSON
LLMRaises(reply) ==
    \/ reply.kind = "error"
    \/ \E n \in 1..Len(reply.tool_calls) :
           ~JsonDecodes(reply.tool_calls[n].function.arguments)

\* LLMToolResponse that keeps the text of a message that requests tool calls
LLMToolResponseKeepsText(message) ==
    [ tool_calls |-> MapSeq(message.tool_calls, ToolCall),
      final_text |-> IF message.tool_calls # <<>>
                     THEN message.content ELSE PyOr(message.content, EmptyStr),
      assistant_message |-> message ]

\* call_llm_with_tools returns: tool_calls (None written <<>>) or final_text
LLMToolResponse(message) ==
    IF message.tool_calls # <<>>
    THEN [ tool_calls |-> MapSeq(message.tool_calls, ToolCall),
           final_text |-> None,
           assistant_message |-> message ]
    ELSE [ tool_calls |-> <<>>,
           final_text |-> PyOr(message.content, EmptyStr),
           assistant_message |-> message ]

wants_tool_calls(response) == response.tool_calls # <<>>

----------------------------------------------------------------------------
(* Webhook boundary: models/jira_models.py, api/webhook.py *)

\* a required field that the request body lacks (or gives as null)
Absent == <<"\\absent">>

IssueKeys == { <<"PROJ-1">> }
Modes == { <<"first_pass">>, <<"pm_feedback">>, <<"second_pass">> }
Comments == { None, <<"Yes to all">> }

\* the request bodies a caller can post to /jira/refine: a comment comes
\* with the mode that reads it
RequestBodies ==
    { b \in [ issue_key : IssueKeys \cup {Absent},
              mode : Modes \cup {Absent},
              pm_comment : Comments ] :
        b.pm_comment # None => b.mode = <<"pm_feedback">> }

\* more shapes of body: an empty issue key, an empty comment, a comment of
\* several lines, a comment sent with the mode that does not read it
AllRequestBodies ==
    RequestBodies
    \cup [ issue_key : {EmptyStr}, mode : Modes \cup {Absent}, pm_comment : {None} ]
    \cup [ issue_key : IssueKeys, mode : { <<"pm_feedback">> },
           pm_comment : { EmptyStr, <<"1. Yes.", "\n", "2. Web only.">> } ]
    \cup [ issue_key : IssueKeys, mode : { <<"first_pass">> },
           pm_comment : { <<"Yes to all">> } ]

\* WebhookPayload: issue_key and mode are required strings
PayloadValidates(body) == body.issue_key # Absent /\ body.mode # Absent

\* ModeAccepted with the mode check left out
ModeAcceptedAny(mode) == TRUE

\* jira_refine: the mode check
ModeAccepted(mode) == mode \in { <<"first_pass">>, <<"pm_feedback">> }

NoBody == [issue_key |-> Absent, mode |-> Absent, pm_comment |-> None]
NoHttpResponse == [code |-> "none", status |-> EmptyStr, issue |-> EmptyStr, mode |-> EmptyStr]
Unprocessable == [code |-> "422", status |-> EmptyStr, issue |-> EmptyStr, mode |-> EmptyStr]

\* Accepted echoing the mode in place of the issue key
AcceptedModeForIssue(payload) ==
    [ code |-> "200", status |-> <<"accepted">>,
      issue |-> payload.mode, mode |-> payload.mode ]

\* jira_refine: the acknowledgement
Accepted(payload) ==
    [ code |-> "200", status |-> <<"accepted">>,
      issue |-> payload.issue_key, mode |-> payload.mode ]

----------------------------------------------------------------------------
(* Agent loop: services/refinement_service.py *)

MAX_AGENT_ITERATIONS == 15

\* ToolErrorResult that leaves the exception's text out
ToolErrorResultNoDetail(name, e) == <<"Error calling tool '">> \o name \o <<"'">>

\* f"Error calling tool '{tool_call.name}': {e}"
ToolErrorResult(name, e) == <<"Error calling tool '">> \o name \o <<"': ">> \o e

\* f"Agent reached maximum iterations ({MAX_AGENT_ITERATIONS}) for {issue_key}."
MaxIterationsResult(issue_key) ==
    <<"Agent reached ", "maximum iterations", " (", ToString(MAX_AGENT_ITERATIONS),
      ") for ">> \o issue_key \o <<".">>

\* the tool-result message appended for one tool call
ToolMessage(tool_call, result) ==
    [role |-> "tool", tool_call_id |-> tool_call.id, content |-> result]

\* AssistantToolCall that encodes the decoded arguments anew
AssistantToolCallReencoded(tc) ==
    [ id |-> tc.id, type |-> "function",
      function |->
          [ name |-> tc.function.name,
            arguments |-> IF json_loads(tc.function.arguments) = {}
                          THEN ArgsEmpty ELSE ArgsKey ] ]

AssistantToolCall(tc) ==
    [ id |-> tc.id, type |-> "function",
      function |-> [name |-> tc.function.name, arguments |-> tc.function.arguments] ]

assistant_message_to_dict(message) ==
    IF message.tool_calls # <<>>
    THEN [ role |-> "assistant", content |-> PyOr(message.content, EmptyStr),
           tool_calls |-> MapSeq(message.tool_calls, AssistantToolCall) ]
    ELSE [ role |-> "assistant", content |-> PyOr(message.content, EmptyStr) ]

NoResponse == [tool_calls |-> <<>>, final_text |-> None, assistant_message |-> TransportError]

\* a request slot before its request arrives
IdleTask ==
    [ pc |-> "idle",              \* idle, rejected, created, await_llm, await_tool, finished
      payload |-> NoBody,
      http |-> NoHttpResponse,    \* what jira_refine answered the caller
      config |-> "not_loaded",    \* what the configuration file held at the start
      wrapper |-> "not_started",  \* _safe_handle: not_started, running, completed, raised
      logged |-> 0,               \* exceptions _safe_handle logged
      run |-> "not_started",      \* run_agent_loop: not_started, running, final,
                                  \*   max_iterations, raised
      raised_by |-> "none",       \* the call whose exception left run_agent_loop
      result |-> None,            \* what run_agent_loop returned
      messages |-> <<>>,
      tools |-> <<>>,
      iteration |-> 0,
      response |-> NoResponse,
      k |-> 0,                    \* position in response.tool_calls
      llm_calls |-> 0,            \* calls of call_llm_with_tools so far
      replies |-> <<>>,           \* what the chat gateway answered, per call
      tool_log |-> <<>>,          \* calls of mcp_jira_client.call_tool so far
      tool_outcomes |-> <<>>,     \* how each of them ended
      tool_replies |-> <<>>,      \* what the tool session answered, and to which call
      overlapped |-> FALSE,       \* one of them ended while a call of another run
                                  \*   was outstanding
      runs |-> 0,                 \* entries into run_agent_loop
      after_stop |-> FALSE ]      \* stop() had returned at that entry

\* _safe_handle without its handler: the exception leaves the task
safe_handle_unguarded(run) == IF run = "raised" THEN "raised" ELSE "completed"

\* _safe_handle around handle_webhook: `except Exception` logs and completes
safe_handle(run) == "completed"

\* Finish with a wrapper that dispatches the run again when it failed or hit
\* the iteration limit
FinishRetrying(t, run, raised_by, result) ==
    IF run \in {"raised", "max_iterations"}
    THEN [t EXCEPT !.pc = "created", !.run = run, !.raised_by = raised_by]
    ELSE [ t EXCEPT !.pc = "finished", !.run = run, !.raised_by = raised_by,
                    !.result = result, !.wrapper = safe_handle(run) ]

\* run_agent_loop ends; handle_webhook passes the outcome on to _safe_handle
Finish(t, run, raised_by, result) ==
    [ t EXCEPT !.pc = "finished", !.run = run, !.raised_by = raised_by,
               !.result = result, !.wrapper = safe_handle(run),
               !.logged = IF run = "raised" /\ safe_handle(run) = "completed"
                          THEN @ + 1 ELSE @ ]

\* LoopHead without a bound: `while True`
LoopHeadUnbounded(t) == [t EXCEPT !.pc = "await_llm", !.k = 0, !.llm_calls = @ + 1]

\* LoopHead with the bound off by one: `range(MAX_AGENT_ITERATIONS + 1)`
LoopHeadOffByOne(t) ==
    IF t.iteration <= MAX_AGENT_ITERATIONS
    THEN [t EXCEPT !.pc = "await_llm", !.k = 0, !.llm_calls = @ + 1]
    ELSE Finish(t, "max_iterations", "none", MaxIterationsResult(t.payload.issue_key))

\* the head of `for iteration in range(MAX_AGENT_ITERATIONS)`: the next chat
\* call, or the fall-through to the iteration-limit return
LoopHead(t) ==
    IF t.iteration < MAX_AGENT_ITERATIONS
    THEN [t EXCEPT !.pc = "await_llm", !.k = 0, !.llm_calls = @ + 1]
    ELSE Finish(t, "max_iterations", "none", MaxIterationsResult(t.payload.issue_key))

\* CurrentToolCall taking the tool calls last to first
CurrentToolCallReversed(t) ==
    t.response.tool_calls[Len(t.response.tool_calls) - t.k + 1]

\* `for tool_call in response.tool_calls`: the tool call at position t.k
CurrentToolCall(t) == t.response.tool_calls[t.k]

\* AppendToolResult echoing the id of the turn's first tool call
AppendToolResultFirstId(t, result) ==
    [ t EXCEPT !.messages = Append(@, ToolMessage(t.response.tool_calls[1], result)),
               !.k = @ + 1 ]

\* AppendToolResult that writes the result over the last message
AppendToolResultOverwriting(t, result) ==
    [ t EXCEPT !.messages = [@ EXCEPT ![Len(@)] = ToolMessage(CurrentToolCall(t), result)],
               !.k = @ + 1 ]

\* messages.append({"role": "tool", ...}) and on to the next tool call
AppendToolResult(t, result) ==
    [ t EXCEPT !.messages = Append(@, ToolMessage(CurrentToolCall(t), result)),
               !.k = @ + 1 ]

\* AfterToolError without the handler: the exception leaves run_agent_loop
AfterToolErrorUncaught(t, e) == Finish(t, "raised", "tool", None)

\* AfterToolError that handles the exception but appends no result
AfterToolErrorDropped(t, e) == [t EXCEPT !.k = @ + 1]

\* `except Exception as e`: the error string becomes the result
AfterToolError(t, e) ==
    AppendToolResult(t, ToolErrorResult(CurrentToolCall(t).name, e))

\* history: a call of call_tool begins, with the position it was made at
LogToolCall(t) ==
    [ t EXCEPT !.tool_log =
          Append(@, [ call |-> CurrentToolCall(t), iteration |-> t.iteration,
                      k |-> t.k, messages |-> Len(t.messages) ]) ]

\* history: the call ended, with the place its result message belongs at
LogToolOutcome(t, failed, detail) ==
    [ t EXCEPT !.tool_outcomes =
          Append(@, [failed |-> failed, detail |-> detail, at |-> Len(t.messages) + 1]) ]

\* RunToolCalls that leaves out the tool calls of the last iteration
RunToolCallsSkipLast(t, sess) ==
    IF t.pc = "finished" THEN t
    ELSE IF t.k > Len(t.response.tool_calls) \/ t.iteration = MAX_AGENT_ITERATIONS - 1
    THEN LoopHead([t EXCEPT !.iteration = @ + 1])
    ELSE [LogToolCall(t) EXCEPT !.pc = "await_tool"]

\* RunToolCalls that starts every remaining tool call of the turn at once
RunToolCallsGathered(t, sess) ==
    IF t.pc = "finished" THEN t
    ELSE IF t.k > Len(t.response.tool_calls)
    THEN LoopHead([t EXCEPT !.iteration = @ + 1])
    ELSE [ t EXCEPT
             !.pc = "await_tool",
             !.tool_log =
                 @ \o [ j \in 1..(Len(t.response.tool_calls) - t.k + 1) |->
                          [ call |-> t.response.tool_calls[t.k + j - 1],
                            iteration |-> t.iteration, k |-> t.k + j - 1,
                            messages |-> Len(t.messages) ] ] ]

\* RunToolCalls with a call_tool that does not look at the session first
RunToolCallsUnchecked(t, sess) ==
    IF t.pc = "finished" THEN t
    ELSE IF t.k > Len(t.response.tool_calls)
    THEN LoopHead([t EXCEPT !.iteration = @ + 1])
    ELSE [LogToolCall(t) EXCEPT !.pc = "await_tool"]

RECURSIVE RunToolCalls(_, _)
\* `for tool_call in response.tool_calls` from position t.k up to the next
\* suspension: call_tool raises at once without a session, and awaits the
\* session otherwise
RunToolCalls(t, sess) ==
    IF t.pc = "finished" THEN t
    ELSE IF t.k > Len(t.response.tool_calls)
    THEN LoopHead([t EXCEPT !.iteration = @ + 1])
    ELSE IF sess = NoSession
         THEN RunToolCalls(
                  AfterToolError(LogToolOutcome(LogToolCall(t), TRUE, NotConnectedError),
                                 NotConnectedError),
                  sess)
         ELSE [LogToolCall(t) EXCEPT !.pc = "await_tool"]

\* AfterLLMError that swallows the exception and goes on to the next iteration
AfterLLMErrorSwallowed(t) == LoopHead([t EXCEPT !.iteration = @ + 1])

\* an exception of call_llm_with_tools is not caught in run_agent_loop
AfterLLMError(t) == Finish(t, "raised", "llm", None)

\* AfterResponse without the early return on a final answer
AfterResponseNoReturn(t, response, sess) ==
    RunToolCalls(
        [ t EXCEPT !.messages =
                       Append(@, assistant_message_to_dict(response.assistant_message)),
                   !.response = response,
                   !.k = 1 ],
        sess)

\* AfterResponse returning the raw content of a final answer
AfterResponseRawContent(t, response, sess) ==
    IF ~wants_tool_calls(response)
    THEN Finish(t, "final", "none", response.assistant_message.content)
    ELSE AfterResponseNoReturn(t, response, sess)

\* run_agent_loop after call_llm_with_tools returned `response`
AfterResponse(t, response, sess) ==
    IF ~wants_tool_calls(response)
    THEN Finish(t, "final", "none", PyOr(response.final_text, EmptyStr))
    ELSE RunToolCalls(
             [ t EXCEPT !.messages =
                            Append(@, assistant_message_to_dict(response.assistant_message)),
                        !.response = response,
                        !.k = 1 ],
             sess)

----------------------------------------------------------------------------
(* The environment: what the chat gateway and the tool server answer *)

CallA == RawToolCall("call_1", <<"jira_get_issue">>, ArgsKey)
CallASpaced == RawToolCall("call_1", <<"jira_get_issue">>, ArgsKeySpaced)
CallB == RawToolCall("call_2", <<"jira_add_comment">>, ArgsEmpty)
CallBTruncated == RawToolCall("call_2", <<"jira_add_comment">>, ArgsTruncated)

\* what the chat gateway can answer in a varied iteration
VariedReplies ==
    { TransportError,
      RawMessage(None, <<>>),
      RawMessage(EmptyStr, <<>>),
      RawMessage(<<"Refined">>, <<>>),
      RawMessage(None, <<CallA>>),
      RawMessage(None, <<CallA, CallB>>),
      RawMessage(<<"Let me look.">>, <<CallA, CallASpaced>>),
      RawMessage(None, <<CallA, CallBTruncated>>) }

SteadyFinal == RawMessage(<<"Done">>, <<>>)
SteadyToolCall == RawMessage(None, <<CallA>>)

\* what it can answer in a later iteration
SteadyReplies == {TransportError, SteadyFinal, SteadyToolCall}

ChatReplies(iteration) ==
    IF iteration < MaxVaried THEN VariedReplies ELSE SteadyReplies

ToolReplies(iteration) ==
    IF iteration < MaxVaried THEN ServerReplies ELSE {OkReply}

\* no task is inside a steady iteration: the shutdown is explored only
\* against the varied iterations of the running tasks
NoSteadyTask(tasks) ==
    \A i \in DOMAIN tasks :
        tasks[i].pc \in {"await_llm", "await_tool"} => tasks[i].iteration < MaxVaried

----------------------------------------------------------------------------
(* Application lifespan and the MCP client's start and stop: main.py,
   jira/mcp_client.py *)

Init ==
    /\ lifespan = "init"
    /\ session = NoSession
    /\ exit_stack = NoExitStack
    /\ client_tools = <<>>
    /\ list_tools_calls = 0
    /\ task = [i \in Slots |-> IdleTask]

\* start(): the exit stack is made and stdio_client is being entered
StartBegin ==
    /\ lifespan = "init"
    /\ exit_stack' = "AsyncExitStack"
    /\ lifespan' = "start_stdio"
    /\ UNCHANGED <<session, client_tools, list_tools_calls, task>>

\* stdio_client entered (or failed); ClientSession is being entered
StartStdio ==
    /\ lifespan = "start_stdio"
    /\ \E ok \in BOOLEAN : lifespan' = IF ok THEN "start_session" ELSE "startup_failed"
    /\ UNCHANGED <<session, exit_stack, client_tools, list_tools_calls, task>>

\* ClientSession entered and assigned (or failed); initialize() is awaited
StartSession ==
    /\ lifespan = "start_session"
    /\ \E ok \in BOOLEAN :
          /\ lifespan' = IF ok THEN "start_initialize" ELSE "startup_failed"
          /\ session' = IF ok THEN "ClientSession" ELSE session
    /\ UNCHANGED <<exit_stack, client_tools, list_tools_calls, task>>

\* initialize() returned (or failed); list_tools() is awaited
StartInitialize ==
    /\ lifespan = "start_initialize"
    /\ \E ok \in BOOLEAN : lifespan' = IF ok THEN "start_list_tools" ELSE "startup_failed"
    /\ UNCHANGED <<session, exit_stack, client_tools, list_tools_calls, task>>

\* list_tools() was requested and returned one of `catalogs`, which is
\* cached (or it failed); the application serves
StartListToolsFrom(catalogs) ==
    /\ lifespan = "start_list_tools"
    /\ list_tools_calls' = list_tools_calls + 1
    /\ \E ok \in BOOLEAN :
          /\ lifespan' = IF ok THEN "serving" ELSE "startup_failed"
          /\ \E catalog \in catalogs :
                client_tools' = IF ok THEN catalog ELSE client_tools
    /\ UNCHANGED <<session, exit_stack, task>>

StartListTools == StartListToolsFrom({ServerTools})

\* shutdown: stop() finds the exit stack and awaits aclose()
StopBegin ==
    /\ lifespan = "serving"
    /\ NoSteadyTask(task)
    /\ exit_stack # NoExitStack
    /\ lifespan' = "stop_aclose"
    /\ UNCHANGED <<session, exit_stack, client_tools, list_tools_calls, task>>

\* StopEnd with a stop() that empties the cached catalog as well
StopEndClearsTools ==
    /\ lifespan = "stop_aclose"
    /\ NoSteadyTask(task)
    /\ \E ok \in BOOLEAN :
          /\ lifespan' = IF ok THEN "shutdown" ELSE "shutdown_failed"
          /\ session' = IF ok THEN NoSession ELSE session
          /\ exit_stack' = IF ok THEN NoExitStack ELSE exit_stack
          /\ client_tools' = IF ok THEN <<>> ELSE client_tools
    /\ UNCHANGED <<list_tools_calls, task>>

\* aclose() returned: session and exit stack are cleared; or it raised and
\* stop() is left with both still set
StopEnd ==
    /\ lifespan = "stop_aclose"
    /\ NoSteadyTask(task)
    /\ \E ok \in BOOLEAN :
          /\ lifespan' = IF ok THEN "shutdown" ELSE "shutdown_failed"
          /\ session' = IF ok THEN NoSession ELSE session
          /\ exit_stack' = IF ok THEN NoExitStack ELSE exit_stack
    /\ UNCHANGED <<client_tools, list_tools_calls, task>>

is_connected == session # NoSession

----------------------------------------------------------------------------
(* Requests and background tasks *)

\* POST /jira/refine with one of `bodies`: body validation, the mode check,
\* create_task and the acknowledgement
JiraRefineFrom(i, bodies) ==
    /\ lifespan = "serving"
    /\ task[i].pc = "idle"
    /\ \E body \in bodies :
          task' = [task EXCEPT ![i] =
              IF PayloadValidates(body) /\ ModeAccepted(body.mode)
              THEN [@ EXCEPT !.pc = "created", !.payload = body, !.http = Accepted(body)]
              ELSE [@ EXCEPT !.pc = "rejected", !.payload = body, !.http = Unprocessable]]
    /\ UNCHANGED <<lifespan, session, exit_stack, client_tools, list_tools_calls>>

JiraRefine(i) == JiraRefineFrom(i, RequestBodies)

\* StartTaskWith with one message list for the module: the prompt is appended
\* to what the other runs have put there
StartTaskSharedList(i, files) ==
    /\ task[i].pc = "created"
    /\ \E file \in files :
          LET t == [task[i] EXCEPT !.wrapper = "running", !.run = "running",
                                   !.runs = @ + 1, !.after_stop = (lifespan = "shutdown"),
                                   !.config = file]
              p == t.payload
              others == IF DOMAIN task = {i} THEN <<>>
                        ELSE task[CHOOSE j \in DOMAIN task : j # i].messages
          IN  task' = [task EXCEPT ![i] =
                  IF ~DomainConfigLoads(file)
                  THEN Finish(t, "raised", "config", None)
                  ELSE LoopHead(
                           [ t EXCEPT
                               !.messages = others \o
                                            build_agent_prompt(p.issue_key, p.mode,
                                               p.pm_comment, get_domain_config(file)),
                               !.tools = get_tools_as_openai_functions(client_tools),
                               !.iteration = 0 ])]
    /\ UNCHANGED <<lifespan, session, exit_stack, client_tools, list_tools_calls>>

\* StartTaskWith with a catalog read that asks the tool server again
StartTaskRelisting(i, files) ==
    /\ task[i].pc = "created"
    /\ \E file \in files :
          LET t == [task[i] EXCEPT !.wrapper = "running", !.run = "running",
                                   !.runs = @ + 1, !.after_stop = (lifespan = "shutdown"),
                                   !.config = file]
              p == t.payload
          IN  task' = [task EXCEPT ![i] =
                  IF ~DomainConfigLoads(file)
                  THEN Finish(t, "raised", "config", None)
                  ELSE LoopHead(
                           [ t EXCEPT
                               !.messages = build_agent_prompt(p.issue_key, p.mode,
                                               p.pm_comment, get_domain_config(file)),
                               !.tools = get_tools_as_openai_functions(client_tools),
                               !.iteration = 0 ])]
    /\ list_tools_calls' = list_tools_calls + 1
    /\ UNCHANGED <<lifespan, session, exit_stack, client_tools>>

\* the task starts, with the configuration file holding one of `files`:
\* _safe_handle, handle_webhook, and run_agent_loop up to its first chat call
StartTaskWith(i, files) ==
    /\ task[i].pc = "created"
    /\ \E file \in files :
          LET t == [task[i] EXCEPT !.wrapper = "running", !.run = "running",
                                   !.runs = @ + 1, !.after_stop = (lifespan = "shutdown"),
                                   !.config = file]
              p == t.payload
          IN  task' = [task EXCEPT ![i] =
                  IF ~DomainConfigLoads(file)
                  THEN Finish(t, "raised", "config", None)
                  ELSE LoopHead(
                           [ t EXCEPT
                               !.messages = build_agent_prompt(p.issue_key, p.mode,
                                               p.pm_comment, get_domain_config(file)),
                               !.tools = get_tools_as_openai_functions(client_tools),
                               !.iteration = 0 ])]
    /\ UNCHANGED <<lifespan, session, exit_stack, client_tools, list_tools_calls>>

StartTask(i) == StartTaskWith(i, DeployedConfigFiles)

\* call_llm_with_tools ends, the gateway answering one of `replies`: it
\* raises, or the loop goes on to its return or through the tool calls up to
\* the next suspension
LLMReturnsFrom(i, replies) ==
    /\ task[i].pc = "await_llm"
    /\ \E reply \in replies :
          LET t == [task[i] EXCEPT !.replies = Append(@, reply)]
          IN  task' = [task EXCEPT ![i] =
                  IF LLMRaises(reply)
                  THEN AfterLLMError(t)
                  ELSE AfterResponse(t, LLMToolResponse(reply), session)]
    /\ UNCHANGED <<lifespan, session, exit_stack, client_tools, list_tools_calls>>

LLMReturns(i) == LLMReturnsFrom(i, ChatReplies(task[i].iteration))

\* the other runs that have a call outstanding on the tool session
InFlightElsewhere(i) == {j \in DOMAIN task \ {i} : task[j].pc = "await_tool"}

\* ToolReturnsFrom with a call_tool that drops the session when a call fails
ToolReturnsResetting(i, replies) ==
    /\ task[i].pc = "await_tool"
    /\ \E reply \in replies :
          LET name == CurrentToolCall(task[i]).name
              e == call_tool_error(name, reply)
              t == LogToolOutcome(
                       [task[i] EXCEPT
                            !.tool_replies =
                                Append(@, [n |-> Len(task[i].tool_log), reply |-> reply]),
                            !.overlapped = @ \/ InFlightElsewhere(i) # {}],
                       ToolFailed(reply),
                       IF ToolFailed(reply) THEN e ELSE EmptyStr)
          IN  /\ task' = [task EXCEPT ![i] =
                     RunToolCalls(
                         IF ToolFailed(reply)
                         THEN AfterToolError(t, e)
                         ELSE AppendToolResult(t, call_tool_text(reply)),
                         IF ToolFailed(reply) THEN NoSession ELSE session)]
              /\ session' = IF ToolFailed(reply) THEN NoSession ELSE session
    /\ UNCHANGED <<lifespan, exit_stack, client_tools, list_tools_calls>>

\* session.call_tool ends for the tool call in flight with one of `replies`:
\* the reply is noted, its text or its error
\* string is appended, and the loop goes on up to the next suspension
ToolReturnsFrom(i, replies) ==
    /\ task[i].pc = "await_tool"
    /\ \E reply \in replies :
          LET name == CurrentToolCall(task[i]).name
              e == call_tool_error(name, reply)
              t == LogToolOutcome(
                       [task[i] EXCEPT
                            !.tool_replies =
                                Append(@, [n |-> Len(task[i].tool_log), reply |-> reply]),
                            !.overlapped = @ \/ InFlightElsewhere(i) # {}],
                       ToolFailed(reply),
                       IF ToolFailed(reply) THEN e ELSE EmptyStr)
          IN  task' = [task EXCEPT ![i] =
                  RunToolCalls(
                      IF ToolFailed(reply)
                      THEN AfterToolError(t, e)
                      ELSE AppendToolResult(t, call_tool_text(reply)),
                      session)]
    /\ UNCHANGED <<lifespan, session, exit_stack, client_tools, list_tools_calls>>

ToolReturns(i) == ToolReturnsFrom(i, ToolReplies(task[i].iteration))

Next ==
    \/ StartBegin
    \/ StartStdio
    \/ StartSession
    \/ StartInitialize
    \/ StartListTools
    \/ StopBegin
    \/ StopEnd
    \/ \E i \in Slots : JiraRefine(i)
    \/ \E i \in Slots : StartTask(i)
    \/ \E i \in Slots : LLMReturns(i)
    \/ \E i \in Slots : ToolReturns(i)

Spec == Init /\ [][Next]_vars

----------------------------------------------------------------------------
(* The same program under fair scheduling, against gateways that answer
   with a failure, a final answer or two tool calls *)

LiveBodies ==
    { b \in RequestBodies : PayloadValidates(b) /\ b.mode # <<"pm_feedback">> }

LiveReplies(iteration) ==
    IF iteration < MaxVaried
    THEN SteadyReplies \cup {RawMessage(None, <<CallA, CallB>>)}
    ELSE SteadyReplies

LiveRefine(i) == JiraRefineFrom(i, LiveBodies)
LiveStartTask(i) == StartTaskWith(i, {"missing", "malformed"})
LiveLLMReturns(i) == LLMReturnsFrom(i, LiveReplies(task[i].iteration))

LiveNext ==
    \/ StartBegin
    \/ StartStdio
    \/ StartSession
    \/ StartInitialize
    \/ StartListTools
    \/ StopBegin
    \/ StopEnd
    \/ \E i \in Slots : LiveRefine(i)
    \/ \E i \in Slots : LiveStartTask(i)
    \/ \E i \in Slots : LiveLLMReturns(i)
    \/ \E i \in Slots : ToolReturns(i)

\* the event loop runs a created task, and every awaited gateway call (chat
\* completion, tool invocation) eventually returns or raises
Fairness ==
    \A i \in Slots :
        /\ WF_vars(LiveStartTask(i))
        /\ WF_vars(LiveLLMReturns(i))
        /\ WF_vars(ToolReturns(i))

LiveSpec == Init /\ [][LiveNext]_vars /\ Fairness

----------------------------------------------------------------------------
(* The webhook boundary against every shape of request body and every
   configuration file, with gateways that answer steadily *)

BoundaryRefine(i) == JiraRefineFrom(i, AllRequestBodies)
BoundaryStartTask(i) == StartTaskWith(i, ConfigFiles)
BoundaryLLMReturns(i) == LLMReturnsFrom(i, SteadyReplies)

BoundaryNext ==
    \/ StartBegin
    \/ StartStdio
    \/ StartSession
    \/ StartInitialize
    \/ StartListTools
    \/ StopBegin
    \/ StopEnd
    \/ \E i \in Slots : BoundaryRefine(i)
    \/ \E i \in Slots : BoundaryStartTask(i)
    \/ \E i \in Slots : BoundaryLLMReturns(i)
    \/ \E i \in Slots : ToolReturns(i)

BoundarySpec == Init /\ [][BoundaryNext]_vars

----------------------------------------------------------------------------
(* Two requests at a time, against a chat gateway that answers the first
   call with a final answer or a failure *)

PairSlots == {1, 2}

PairBodies ==
    { b \in AllRequestBodies :
        /\ b.issue_key \in IssueKeys
        /\ b.mode \in { <<"first_pass">>, <<"pm_feedback">> }
        /\ b.pm_comment # EmptyStr }

PairInit ==
    /\ lifespan = "init"
    /\ session = NoSession
    /\ exit_stack = NoExitStack
    /\ client_tools = <<>>
    /\ list_tools_calls = 0
    /\ task = [i \in PairSlots |-> IdleTask]

PairRefine(i) == JiraRefineFrom(i, PairBodies)
PairStartTask(i) == StartTaskWith(i, ConfigFiles)
PairLLMReturns(i) == LLMReturnsFrom(i, {TransportError, SteadyFinal})

PairNext ==
    \/ StartBegin
    \/ StartStdio
    \/ StartSession
    \/ StartInitialize
    \/ StartListTools
    \/ StopBegin
    \/ StopEnd
    \/ \E i \in PairSlots : PairRefine(i)
    \/ \E i \in PairSlots : PairStartTask(i)
    \/ \E i \in PairSlots : PairLLMReturns(i)

PairSpec == PairInit /\ [][PairNext]_vars

----------------------------------------------------------------------------
(* What a run is assembled from: every catalog list_tools can answer and
   every configuration file that loads, against gateways that answer
   steadily *)

AssemblyListTools == StartListToolsFrom(ServerCatalogs)
AssemblyRefine(i) == JiraRefineFrom(i, LiveBodies)
AssemblyStartTask(i) == StartTaskWith(i, PromptConfigFiles)
AssemblyLLMReturns(i) == LLMReturnsFrom(i, {SteadyFinal, SteadyToolCall})
AssemblyToolReturns(i) == ToolReturnsFrom(i, {OkReply})

AssemblyNext ==
    \/ StartBegin
    \/ StartStdio
    \/ StartSession
    \/ StartInitialize
    \/ AssemblyListTools
    \/ StopBegin
    \/ StopEnd
    \/ \E i \in Slots : AssemblyRefine(i)
    \/ \E i \in Slots : AssemblyStartTask(i)
    \/ \E i \in Slots : AssemblyLLMReturns(i)
    \/ \E i \in Slots : AssemblyToolReturns(i)

AssemblySpec == Init /\ [][AssemblyNext]_vars

----------------------------------------------------------------------------
(* Two runs at a time on the one tool session while the application serves,
   each for its own issue and with its own answers from the chat gateway,
   against a tool server whose result names the request it answers *)

InterleavedBodies(i) ==
    IF i = 1
    THEN { [issue_key |-> <<"PROJ-1">>, mode |-> m, pm_comment |-> None] :
               m \in { <<"first_pass">>, <<"second_pass">> } }
    ELSE { [ issue_key |-> <<"PROJ-2">>, mode |-> <<"pm_feedback">>,
             pm_comment |-> <<"Yes to all">> ] }

CallC == RawToolCall("call_7", <<"jira_search">>, ArgsEmpty)

InterleavedFinal(i) ==
    IF i = 1 THEN RawMessage(<<"Refined PROJ-1">>, <<>>)
    ELSE RawMessage(<<"Updated PROJ-2">>, <<>>)

InterleavedReplies(i, iteration) ==
    IF i = 1
    THEN IF iteration < MaxVaried
         THEN {TransportError, InterleavedFinal(i), RawMessage(None, <<CallA, CallB>>)}
         ELSE {InterleavedFinal(i), SteadyToolCall}
    ELSE IF iteration < MaxVaried
         THEN {InterleavedFinal(i), RawMessage(<<"Searching.">>, <<CallC>>)}
         ELSE {InterleavedFinal(i)}

\* the result of session.call_tool(name, arguments) for one request
EchoReply(call) ==
    [ kind |-> "result", isError |-> FALSE, detail |-> EmptyStr,
      content |-> << [type |-> "text", text |-> <<"result of ">> \o call.name] >> ]

InterleavedToolReplies(t) ==
    IF t.iteration < MaxVaried
    THEN {EchoReply(CurrentToolCall(t)), ErrorReply}
    ELSE {EchoReply(CurrentToolCall(t))}

InterleavedRefine(i) == JiraRefineFrom(i, InterleavedBodies(i))
InterleavedStartTask(i) == StartTaskWith(i, {"missing", "malformed"})
InterleavedLLMReturns(i) == LLMReturnsFrom(i, InterleavedReplies(i, task[i].iteration))
InterleavedToolReturns(i) == ToolReturnsFrom(i, InterleavedToolReplies(task[i]))

InterleavedNext ==
    \/ StartBegin
    \/ StartStdio
    \/ StartSession
    \/ StartInitialize
    \/ StartListTools
    \/ \E i \in PairSlots : InterleavedRefine(i)
    \/ \E i \in PairSlots : InterleavedStartTask(i)
    \/ \E i \in PairSlots : InterleavedLLMReturns(i)
    \/ \E i \in PairSlots : InterleavedToolReturns(i)

InterleavedSpec == PairInit /\ [][InterleavedNext]_vars

----------------------------------------------------------------------------
(* Properties *)

\* `sub in s` for texts: sub occurs in s as a run of consecutive atoms
ContainsText(s, sub) ==
    \E n \in 1..(Len(s) - Len(sub) + 1) : SubSeq(s, n, n + Len(sub) - 1) = sub

\* the chat call returned a response that requests tool calls
RequestsToolCalls(reply) ==
    reply.kind = "message" /\ reply.tool_calls # <<>> /\ ~LLMRaises(reply)

\* the chat call returned a final answer
IsFinalAnswer(reply) == reply.kind = "message" /\ reply.tool_calls = <<>>

\* the run has had responses, and each of them requested tool calls
OnlyToolCallResponses(t) ==
    /\ t.replies # <<>>
    /\ \A n \in 1..Len(t.replies) : RequestsToolCalls(t.replies[n])

\* C1: a run in which every chat response requests tool calls never makes
\* more chat calls than the ceiling, is still running while it has made
\* fewer, and ends when the ceiling-th turn is done: it returns (it does not
\* raise) the text that holds "maximum iterations", the ceiling and the
\* issue key, after exactly MAX_AGENT_ITERATIONS chat calls.
C1_CeilingExact ==
    \A i \in DOMAIN task :
        LET t == task[i]
        IN  /\ t.llm_calls <= MAX_AGENT_ITERATIONS
            /\ OnlyToolCallResponses(t) =>
                  /\ t.run \in {"running", "max_iterations"}
                  /\ t.pc = "await_llm" => Len(t.replies) < MAX_AGENT_ITERATIONS
                  /\ t.pc = "finished" =>
                        /\ t.run = "max_iterations"
                        /\ t.llm_calls = MAX_AGENT_ITERATIONS
                        /\ Len(t.replies) = MAX_AGENT_ITERATIONS
                        /\ Contains(t.result, "maximum iterations")
                        /\ Contains(t.result, ToString(MAX_AGENT_ITERATIONS))
                        /\ ContainsText(t.result, t.payload.issue_key)

C1_Witness ==
    \E i \in DOMAIN task :
        /\ task[i].pc = "finished"
        /\ OnlyToolCallResponses(task[i])
        /\ task[i].run = "max_iterations"
        /\ task[i].llm_calls = MAX_AGENT_ITERATIONS

RECURSIVE LastAssistant(_, _)
\* the index of the last assistant message among the first n, 0 if none
LastAssistant(ms, n) ==
    IF n = 0 \/ ms[n].role = "assistant" THEN n ELSE LastAssistant(ms, n - 1)

\* the index of the nearest assistant message before position m, 0 if none
NearestAssistant(ms, m) == LastAssistant(ms, m - 1)

ToolMessageIndexes(ms) == { m \in 1..Len(ms) : ms[m].role = "tool" }

RECURSIVE RequestedCalls(_)
\* the tool calls the chat responses requested so far, in the order returned
RequestedCalls(replies) ==
    IF replies = <<>> THEN <<>>
    ELSE (IF RequestsToolCalls(Head(replies)) THEN Head(replies).tool_calls ELSE <<>>)
         \o RequestedCalls(Tail(replies))

\* the text a final answer stands for: its content, "" when it has none
FinalTextOf(reply) == IF reply.content = None THEN EmptyStr ELSE reply.content

\* the run is at a chat call or has ended
AtChatCallOrEnd(t) == t.pc \in {"await_llm", "finished"}

\* C2: a failed tool call does not make run_agent_loop raise.  Its request
\* gets a tool-result message with the request's id whose content holds the
\* tool name and the failure detail; the loop then invokes the next request
\* of the turn, or after the turn's last request makes the next chat call
\* (or returns the ceiling message), and a later final answer is returned.
C2_ToolFailureRecovered ==
    \A i \in DOMAIN task :
        LET t == task[i]
        IN  /\ t.raised_by # "tool"
            /\ Len(t.tool_outcomes) <= Len(t.tool_log)
            /\ \A n \in 1..Len(t.tool_outcomes) :
                  t.tool_outcomes[n].failed =>
                      LET o == t.tool_outcomes[n]
                          c == t.tool_log[n]
                          turn == t.replies[c.iteration + 1].tool_calls
                      IN  /\ o.at <= Len(t.messages)
                          /\ t.messages[o.at].role = "tool"
                          /\ t.messages[o.at].tool_call_id = c.call.id
                          /\ ContainsText(t.messages[o.at].content, c.call.name)
                          /\ ContainsText(t.messages[o.at].content, o.detail)
                          /\ o.detail # EmptyStr
                          /\ IF c.k < Len(turn)
                             THEN /\ Len(t.tool_log) > n
                                  /\ t.tool_log[n + 1].iteration = c.iteration
                                  /\ t.tool_log[n + 1].k = c.k + 1
                             ELSE \/ t.llm_calls > c.iteration + 1
                                  \/ /\ t.run = "max_iterations"
                                     /\ c.iteration + 1 = MAX_AGENT_ITERATIONS
                          /\ (t.pc = "finished" /\ IsFinalAnswer(t.replies[Len(t.replies)])) =>
                                /\ t.run = "final"
                                /\ t.result = FinalTextOf(t.replies[Len(t.replies)])

C2_Witness ==
    \E i \in DOMAIN task :
        /\ task[i].pc = "finished"
        /\ task[i].run = "final"
        /\ Len(task[i].tool_outcomes) = 2
        /\ task[i].tool_outcomes[1].failed
        /\ ~task[i].tool_outcomes[2].failed

\* C3 as claimed: at every chat call and at the end of a run, the
\* tool_call_id of each tool-result message is the id of exactly one tool
\* call of the nearest preceding assistant message.
C3_ExactlyOneMatch ==
    \A i \in DOMAIN task :
        LET ms == task[i].messages
        IN  AtChatCallOrEnd(task[i]) =>
                \A m \in ToolMessageIndexes(ms) :
                    LET a == NearestAssistant(ms, m)
                    IN  /\ a > 0
                        /\ Cardinality({ j \in 1..Len(ms[a].tool_calls) :
                               ms[a].tool_calls[j].id = ms[m].tool_call_id }) = 1

\* C3 amended: in every state, the j-th tool-result message after an
\* assistant message carries the id of that assistant message's j-th tool
\* call; so it matches at least one of its tool calls, and exactly one when
\* the ids of that assistant message are pairwise distinct.
C3_PositionalMatch ==
    \A i \in DOMAIN task :
        LET ms == task[i].messages
        IN  \A m \in ToolMessageIndexes(ms) :
                LET a == NearestAssistant(ms, m)
                    calls == ms[a].tool_calls
                    matches == { j \in 1..Len(calls) : calls[j].id = ms[m].tool_call_id }
                IN  /\ a > 0
                    /\ "tool_calls" \in DOMAIN ms[a]
                    /\ m - a <= Len(calls)
                    /\ calls[m - a].id = ms[m].tool_call_id
                    /\ (\A j, l \in 1..Len(calls) : calls[j].id = calls[l].id => j = l)
                           => matches = {m - a}

C3_Witness ==
    \E i \in DOMAIN task :
        LET ms == task[i].messages
        IN  /\ task[i].pc = "await_llm"
            /\ \E m \in ToolMessageIndexes(ms) :
                   LET a == NearestAssistant(ms, m)
                   IN  /\ m - a = 2
                       /\ ms[a].tool_calls[1].id # ms[a].tool_calls[2].id
                       /\ ms[m].tool_call_id = ms[a].tool_calls[2].id

\* C4: every tool call that ended has exactly one tool-result message, and
\* at every chat call and at the end of a run each assistant message with k
\* tool calls is followed by exactly k tool-result messages, one per request
\* that the responses made, whether the calls succeeded or failed.
C4_OneResultPerRequest ==
    \A i \in DOMAIN task :
        LET t == task[i]
            ms == t.messages
        IN  /\ Cardinality(ToolMessageIndexes(ms)) = Len(t.tool_outcomes)
            /\ AtChatCallOrEnd(t) =>
                  /\ Cardinality(ToolMessageIndexes(ms)) = Len(RequestedCalls(t.replies))
                  /\ \A a \in 1..Len(ms) :
                        ms[a].role = "assistant" =>
                            LET k == Len(ms[a].tool_calls)
                            IN  /\ k >= 1
                                /\ a + k <= Len(ms)
                                /\ \A j \in 1..k : ms[a + j].role = "tool"
                                /\ a + k + 1 <= Len(ms) => ms[a + k + 1].role # "tool"

C4_Witness ==
    \E i \in DOMAIN task :
        LET t == task[i]
        IN  /\ t.pc = "await_llm"
            /\ Len(t.tool_outcomes) = 2
            /\ t.tool_outcomes[1].failed
            /\ ~t.tool_outcomes[2].failed
            /\ t.messages[3].role = "assistant"
            /\ Len(t.messages) = 5

\* C5: call_tool is invoked once per requested tool call, in the order the
\* responses listed them, duplicates included; at most one call is in
\* flight, and the result message of a request is appended before the next
\* request is invoked; by the next chat call every request has been invoked.
C5_InOrderOneAtATime ==
    \A i \in DOMAIN task :
        LET t == task[i]
            requested == RequestedCalls(t.replies)
        IN  /\ Len(t.tool_log) <= Len(requested)
            /\ \A n \in 1..Len(t.tool_log) :
                  /\ t.tool_log[n].call = ToolCall(requested[n])
                  /\ n > 1 =>
                        /\ n - 1 <= Len(t.tool_outcomes)
                        /\ t.tool_outcomes[n - 1].at <= t.tool_log[n].messages
                        /\ t.messages[t.tool_outcomes[n - 1].at].role = "tool"
            /\ Len(t.tool_log) - Len(t.tool_outcomes) = IF t.pc = "await_tool" THEN 1 ELSE 0
            /\ AtChatCallOrEnd(t) => Len(t.tool_log) = Len(requested)

C5_Witness ==
    \E i \in DOMAIN task :
        LET t == task[i]
        IN  /\ t.pc = "await_tool"
            /\ Len(t.tool_log) = 2
            /\ t.tool_log[1].call = t.tool_log[2].call
            /\ t.tool_log[2].messages = 4

\* C6: when the first chat response requests no tool calls, the run ends
\* there: it returns that response's text ("" when it has none) after one
\* chat call and no tool call, in either mode.
C6_SingleTurn ==
    \A i \in DOMAIN task :
        LET t == task[i]
        IN  (t.replies # <<>> /\ IsFinalAnswer(t.replies[1])) =>
                /\ t.pc = "finished"
                /\ t.run = "final"
                /\ t.result = FinalTextOf(t.replies[1])
                /\ t.llm_calls = 1
                /\ Len(t.replies) = 1
                /\ t.tool_log = <<>>
                /\ t.payload.mode \in { <<"first_pass">>, <<"pm_feedback">> }

C6_Witness ==
    \E i \in DOMAIN task :
        /\ task[i].pc = "finished"
        /\ task[i].payload.mode = <<"pm_feedback">>
        /\ task[i].llm_calls = 1
        /\ task[i].result = <<"Refined">>

\* C7: when the first response requests one tool call and the second is a
\* final answer, the run makes two chat calls and one tool call, with the
\* request's name and its decoded arguments; the tool-result message carries
\* the request's id; the run returns the second response's text.
C7_OneToolCallThenFinal ==
    \A i \in DOMAIN task :
        LET t == task[i]
        IN  ( /\ Len(t.replies) >= 2
              /\ RequestsToolCalls(t.replies[1])
              /\ Len(t.replies[1].tool_calls) = 1
              /\ IsFinalAnswer(t.replies[2]) ) =>
                LET request == t.replies[1].tool_calls[1]
                IN  /\ t.pc = "finished"
                    /\ t.run = "final"
                    /\ t.result = FinalTextOf(t.replies[2])
                    /\ t.llm_calls = 2
                    /\ Len(t.tool_log) = 1
                    /\ t.tool_log[1].call.name = request.function.name
                    /\ t.tool_log[1].call.arguments = json_loads(request.function.arguments)
                    /\ Len(t.messages) = 4
                    /\ t.messages[3].role = "assistant"
                    /\ t.messages[4].role = "tool"
                    /\ t.messages[4].tool_call_id = request.id

C7_Witness ==
    \E i \in DOMAIN task :
        LET t == task[i]
        IN  /\ t.pc = "finished"
            /\ t.llm_calls = 2
            /\ t.result = <<"Done">>
            /\ Len(t.tool_log) = 1
            /\ t.tool_log[1].call.arguments = {<<"issue_key", "PROJ-1">>}
            /\ ~t.tool_outcomes[1].failed

\* C8: when a chat call fails, whichever it is, it is the run's last event:
\* run_agent_loop raises to its caller, which logs it; no chat call and no
\* tool call follows, and no assistant message is appended for it.
C8_ChatFailurePropagates ==
    \A i \in DOMAIN task :
        LET t == task[i]
        IN  \A n \in 1..Len(t.replies) :
                LLMRaises(t.replies[n]) =>
                    /\ n = Len(t.replies)
                    /\ t.pc = "finished"
                    /\ t.run = "raised"
                    /\ t.raised_by = "llm"
                    /\ t.result = None
                    /\ t.llm_calls = n
                    /\ Len(t.tool_log) = Len(RequestedCalls(SubSeq(t.replies, 1, n - 1)))
                    /\ Len(t.tool_outcomes) = Len(t.tool_log)
                    /\ Cardinality({ m \in 1..Len(t.messages) :
                           t.messages[m].role = "assistant" }) = n - 1

C8_Witness ==
    \E i \in DOMAIN task :
        LET t == task[i]
        IN  /\ t.run = "raised"
            /\ Len(t.replies) = MAX_AGENT_ITERATIONS
            /\ LLMRaises(t.replies[MAX_AGENT_ITERATIONS])
            /\ Len(t.tool_log) = MAX_AGENT_ITERATIONS - 1

C10_ThreePaths ==
    \A i \in DOMAIN task :
        LET t == task[i]
        IN  t.pc = "finished" =>
                \/ t.run = "final"
                \/ t.run = "max_iterations"
                \/ t.run = "raised" /\ t.raised_by = "llm"

\* C10 amended: a run ends by exactly one of four paths: a final answer (its
\* last response), the ceiling message (after MAX_AGENT_ITERATIONS
\* responses that all requested tool calls), a failed chat call (its last
\* chat call), or a domain configuration that fails to load or validate
\* (before any chat call, with no message built).  A tool failure, the
\* prompt builder and the catalog read end no run.
C10_FourPaths ==
    \A i \in DOMAIN task :
        LET t == task[i]
            last == t.replies[Len(t.replies)]
        IN  /\ t.pc \in {"await_llm", "await_tool"} => t.run = "running"
            /\ t.pc = "finished" =>
                  /\ t.run \in {"final", "max_iterations", "raised"}
                  /\ t.run = "raised" => t.raised_by \in {"llm", "config"}
                  /\ t.run # "raised" => t.raised_by = "none"
                  /\ IF t.replies = <<>>
                     THEN /\ t.raised_by = "config"
                          /\ t.llm_calls = 0
                          /\ t.messages = <<>>
                     ELSE /\ t.run = "final" <=> IsFinalAnswer(last)
                          /\ t.raised_by = "llm" <=> LLMRaises(last)
                          /\ t.run = "max_iterations" <=>
                                 /\ RequestsToolCalls(last)
                                 /\ Len(t.replies) = MAX_AGENT_ITERATIONS

C10_Witness ==
    \E i \in DOMAIN task :
        /\ task[i].pc = "finished"
        /\ task[i].raised_by = "config"
        /\ task[i].wrapper = "completed"
        /\ task[i].llm_calls = 0

\* C11: with every gateway call eventually returning or raising, every run
\* of the agent loop eventually ends, whatever the gateways answer: a run
\* makes at most MAX_AGENT_ITERATIONS chat calls, never passes the end of a
\* response's tool calls, and each run that has started reaches its end.
C11_RunsTerminate ==
    /\ [](\A i \in Slots :
             /\ task[i].llm_calls <= MAX_AGENT_ITERATIONS
             /\ task[i].iteration <= MAX_AGENT_ITERATIONS
             /\ task[i].k <= Len(task[i].response.tool_calls) + 1)
    /\ \A i \in Slots : (task[i].run = "running") ~> (task[i].pc = "finished")

\* a run that ended at the ceiling after tool calls that all failed
C11_Witness ==
    \E i \in DOMAIN task :
        LET t == task[i]
        IN  /\ t.pc = "finished"
            /\ t.run = "max_iterations"
            /\ Len(t.tool_outcomes) >= MAX_AGENT_ITERATIONS
            /\ \A n \in 1..Len(t.tool_outcomes) : t.tool_outcomes[n].failed

\* C12: a final-answer response ends the run in its success state, with the
\* response's text as the result, and the empty string when the response has
\* no text; the success state is reached from a final-answer response only
\* (not from a tool-calls response, not from the ceiling).
C12_DoneOnlyFromFinalAnswer ==
    \A i \in DOMAIN task :
        LET t == task[i]
            last == t.replies[Len(t.replies)]
        IN  /\ (t.replies # <<>> /\ IsFinalAnswer(last)) =>
                  /\ t.pc = "finished"
                  /\ t.run = "final"
                  /\ t.result = (IF last.content \in {None, EmptyStr}
                                 THEN EmptyStr ELSE last.content)
            /\ t.run = "final" =>
                  /\ t.replies # <<>>
                  /\ IsFinalAnswer(last)
                  /\ ~RequestsToolCalls(last)
                  /\ t.result # MaxIterationsResult(t.payload.issue_key)
                  /\ t.result # None

\* a final answer without text
C12_Witness ==
    \E i \in DOMAIN task :
        LET t == task[i]
        IN  /\ t.run = "final"
            /\ t.replies # <<>>
            /\ t.replies[Len(t.replies)].content = None
            /\ t.result = EmptyStr

\* the trigger of a slot lacks a required field or names no accepted mode
InvalidTrigger(body) ==
    \/ body.issue_key = Absent
    \/ body.mode = Absent
    \/ body.mode \notin { <<"first_pass">>, <<"pm_feedback">> }

\* the slot's request was answered
Answered(t) == t.pc # "idle"

\* C13: a trigger that lacks issue_key or mode, or whose mode is neither
\* first_pass nor pm_feedback, is answered with an error and dispatches
\* nothing: no task, no run of the agent loop, no chat call, no tool call.
C13_InvalidTriggerRejected ==
    \A i \in DOMAIN task :
        LET t == task[i]
        IN  (Answered(t) /\ InvalidTrigger(t.payload)) =>
                /\ t.pc = "rejected"
                /\ t.http.code = "422"
                /\ t.http.status # <<"accepted">>
                /\ t.wrapper = "not_started"
                /\ t.run = "not_started"
                /\ t.llm_calls = 0
                /\ t.tool_log = <<>>
                /\ t.messages = <<>>

\* a trigger with a mode outside the two accepted ones was rejected
C13_Witness ==
    \E i \in DOMAIN task :
        /\ task[i].pc = "rejected"
        /\ task[i].payload.issue_key \in IssueKeys
        /\ task[i].payload.mode = <<"second_pass">>
        /\ task[i].http.code = "422"

\* C14 as claimed: a trigger whose issue_key is the empty string is
\* rejected and starts no run; every run of the agent loop has a non-empty
\* issue key.
C14_EmptyKeyRejected ==
    \A i \in DOMAIN task :
        LET t == task[i]
        IN  /\ (Answered(t) /\ t.payload.issue_key = EmptyStr) =>
                  /\ t.pc = "rejected"
                  /\ t.http.code = "422"
            /\ t.run # "not_started" => t.payload.issue_key # EmptyStr

\* C15: an accepted trigger is acknowledged with status accepted, its issue
\* key and its mode before its run of the agent loop has begun; the
\* acknowledgement, once given, never changes, whatever the run does and
\* however it ends, and it holds nothing of the run's result.
C15_AcknowledgedAtOnce ==
    /\ [](\A i \in DOMAIN task :
             LET t == task[i]
             IN  /\ (Answered(t) /\ ~InvalidTrigger(t.payload)) =>
                       /\ t.pc # "rejected"
                       /\ DOMAIN t.http = {"code", "status", "issue", "mode"}
                       /\ t.http.code = "200"
                       /\ t.http.status = <<"accepted">>
                       /\ t.http.issue = t.payload.issue_key
                       /\ t.http.mode = t.payload.mode
                 /\ t.pc = "created" => t.run = "not_started")
    /\ [][\A i \in DOMAIN task :
              Answered(task[i]) =>
                  /\ task'[i].http = task[i].http
                  /\ task'[i].payload = task[i].payload]_vars

\* a run that ended at the ceiling, its trigger acknowledged as accepted
C15_Witness ==
    \E i \in DOMAIN task :
        /\ task[i].pc = "finished"
        /\ task[i].run = "max_iterations"
        /\ task[i].http.status = <<"accepted">>
        /\ task[i].http.issue = <<"PROJ-1">>
        /\ task[i].http.mode = <<"pm_feedback">>

\* C16: in pm_feedback mode the messages of the first chat call are the
\* system message and a user message that holds the PM comment verbatim;
\* without a comment (None, or the empty text) it holds the placeholder,
\* and with a comment it does not.  The two messages stay where they are
\* for the later chat calls.
C16_CommentVerbatim ==
    \A i \in DOMAIN task :
        LET t == task[i]
            comment == t.payload.pm_comment
        IN  (t.payload.mode = <<"pm_feedback">> /\ t.llm_calls >= 1) =>
                /\ Len(t.messages) >= 2
                /\ (t.llm_calls = 1 /\ t.pc = "await_llm") => Len(t.messages) = 2
                /\ t.messages[2].role = "user"
                /\ IF comment = None \/ comment = EmptyStr
                   THEN ContainsText(t.messages[2].content, NoCommentPlaceholder)
                   ELSE /\ ContainsText(t.messages[2].content, comment)
                        /\ ~ContainsText(t.messages[2].content, NoCommentPlaceholder)

\* the first chat call of a pm_feedback run with a comment of several lines
C16_Witness ==
    \E i \in DOMAIN task :
        LET t == task[i]
        IN  /\ t.pc = "await_llm"
            /\ t.llm_calls = 1
            /\ t.payload.mode = <<"pm_feedback">>
            /\ Len(t.payload.pm_comment) = 3
            /\ ContainsText(t.messages[2].content, t.payload.pm_comment)

\* the run has built its prompt and made its first chat call
PromptBuilt(t) == t.llm_calls >= 1

\* two runs were given the same issue key, mode, comment and configuration
SameInputs(t, u) == t.payload = u.payload /\ t.config = u.config

C18_OneVariant ==
    \A i \in DOMAIN task :
        LET t == task[i]
            last == t.replies[Len(t.replies)]
            r == LLMToolResponse(last)
            requests == r.tool_calls # <<>>
            final == r.final_text # None
        IN  (t.replies # <<>> /\ ~LLMRaises(last)) =>
                /\ requests \/ final
                /\ ~(requests /\ final)
                /\ requests <=> last.tool_calls # <<>>
                /\ requests =>
                      /\ Len(r.tool_calls) = Len(last.tool_calls)
                      /\ t.response = r
                      /\ t.run # "final"
                /\ final =>
                      /\ r.final_text = FinalTextOf(last)
                      /\ t.run = "final"

\* the loop works on a response made from a message with text and tool calls
C18_Witness ==
    \E i \in DOMAIN task :
        LET t == task[i]
        IN  /\ t.replies # <<>>
            /\ t.pc = "await_tool"
            /\ t.replies[Len(t.replies)].content = <<"Let me look.">>
            /\ t.replies[Len(t.replies)].tool_calls # <<>>
            /\ t.response.final_text = None
            /\ Len(t.response.tool_calls) = 2

\* C19 as claimed, for the states in which neither start() nor stop() is in
\* progress: is_connected is false on a fresh client, after a start() that
\* failed and after stop() completed, and true once start() has completed;
\* a fresh client has an empty catalog.
C19_ProbeTracksLifecycle ==
    /\ lifespan = "init" => (~is_connected /\ client_tools = <<>>)
    /\ lifespan = "startup_failed" => ~is_connected
    /\ lifespan = "shutdown" => ~is_connected
    /\ lifespan = "serving" => is_connected

\* C20: a call of call_tool made while the client has no session raises the
\* not-connected error at once, whatever the tool and its arguments: the
\* step leaves no request in flight, and it leaves the session, the exit
\* stack and the cached catalog as they were.
C20_NotConnectedFailsFast ==
    [][\A i \in DOMAIN task :
          LET t == task[i]
              u == task'[i]
              begun == (Len(t.tool_log) + 1)..Len(u.tool_log)
          IN  (session = NoSession /\ u # t) =>
                  /\ u.pc # "await_tool"
                  /\ Len(u.tool_outcomes) = Len(u.tool_log)
                  /\ \A n \in begun :
                        /\ u.tool_outcomes[n].failed
                        /\ u.tool_outcomes[n].detail = NotConnectedError
                        /\ u.messages[u.tool_outcomes[n].at].content =
                               <<"Error calling tool '">> \o u.tool_log[n].call.name
                               \o <<"': ">> \o NotConnectedError
                  /\ begun # {} => UNCHANGED <<session, exit_stack, client_tools>>]_vars

\* both tools were called without a session and failed as not connected,
\* the catalog still cached
C20_Witness ==
    \E i \in DOMAIN task :
        LET t == task[i]
        IN  /\ session = NoSession
            /\ client_tools = ServerTools
            /\ Len(t.tool_outcomes) >= 2
            /\ \E n, m \in 1..Len(t.tool_outcomes) :
                   /\ t.tool_log[n].call.name = <<"jira_get_issue">>
                   /\ t.tool_log[m].call.name = <<"jira_add_comment">>
                   /\ t.tool_outcomes[n].detail = NotConnectedError
                   /\ t.tool_outcomes[m].detail = NotConnectedError

----------------------------------------------------------------------------
\* a run that got as far as reading the catalog
ReadCatalog(t) == t.runs > 0 /\ t.raised_by # "config"

\* C21: the function list a run reads has the length and the order of the
\* cached catalog; entry n is {type: function, function: {name, description,
\* parameters}} with the name and the description of tool n (an absent
\* description reads as the empty string) and, as parameters, the input schema
\* of tool n, or {type: object, properties: {}} when tool n has none
C21_CatalogConverted ==
    \A i \in DOMAIN task :
        LET t == task[i]
        IN  ReadCatalog(t) =>
              /\ Len(t.tools) = Len(client_tools)
              /\ \A n \in 1..Len(client_tools) :
                    LET tool == client_tools[n]
                        entry == t.tools[n]
                    IN  /\ DOMAIN entry = {"type", "function"}
                        /\ entry.type = "function"
                        /\ DOMAIN entry.function = {"name", "description", "parameters"}
                        /\ entry.function.name = tool.name
                        /\ entry.function.description =
                              (IF tool.description = None THEN EmptyStr
                               ELSE tool.description)
                        /\ entry.function.parameters =
                              (IF tool.inputSchema = NoSchema
                               THEN [type |-> "object", properties |-> {}]
                               ELSE tool.inputSchema)

\* a run read a catalog of two tools, the second without an input schema
C21_Witness ==
    \E i \in DOMAIN task :
        /\ ReadCatalog(task[i])
        /\ Len(client_tools) = 2
        /\ client_tools[2].inputSchema = NoSchema
        /\ client_tools[1].inputSchema # NoSchema
        /\ task[i].tools[2].function.parameters = [type |-> "object", properties |-> {}]
        /\ task[i].tools[1].function.parameters = client_tools[1].inputSchema

----------------------------------------------------------------------------
RECURSIVE TurnMessages(_)
\* the messages the answered chat calls add: per tool-calls reply, the
\* assistant message and one result per tool call
TurnMessages(replies) ==
    IF replies = <<>> THEN 0
    ELSE (IF RequestsToolCalls(Head(replies)) THEN 1 + Len(Head(replies).tool_calls) ELSE 0)
         + TurnMessages(Tail(replies))

\* at a chat call after the first, the sequence ends with the assistant
\* message of the reply before and the results of its tool calls in request
\* order, and holds nothing besides the prompt and the turns so far
TurnAppended(t) ==
    LET reply == t.replies[Len(t.replies)]
        n == Len(reply.tool_calls)
        base == Len(t.messages) - n
        done == Len(t.tool_outcomes) - n
    IN  /\ Len(t.messages) = 2 + TurnMessages(t.replies)
        /\ t.messages[1].role = "system"
        /\ t.messages[2].role = "user"
        /\ t.messages[base] = assistant_message_to_dict(reply)
        /\ done >= 0
        /\ \A j \in 1..n :
              /\ t.messages[base + j].role = "tool"
              /\ t.messages[base + j].tool_call_id = reply.tool_calls[j].id
              /\ t.tool_log[done + j].call.id = reply.tool_calls[j].id
              /\ t.tool_outcomes[done + j].at = base + j

\* C22: the message sequence of a run only grows at its end, and at the chat
\* call after a tool-calls reply it is the sequence of the call before plus
\* the assistant message of that reply plus the results of its tool calls in
\* request order
C22_AppendOnly ==
    /\ [](\A i \in DOMAIN task :
            task[i].pc = "await_llm" /\ task[i].llm_calls > 1 => TurnAppended(task[i]))
    /\ [][\A i \in DOMAIN task :
            /\ Len(task[i].messages) <= Len(task'[i].messages)
            /\ SubSeq(task'[i].messages, 1, Len(task[i].messages)) = task[i].messages]_vars

\* a third chat call is made after two turns, the first of two tool calls
C22_Witness ==
    \E i \in DOMAIN task :
        /\ task[i].pc = "await_llm"
        /\ task[i].llm_calls = 3
        /\ Len(task[i].replies[1].tool_calls) = 2
        /\ Len(task[i].messages) = 7
        /\ TurnAppended(task[i])

----------------------------------------------------------------------------
\* the prompt a run builds from its own request and configuration
OwnPrompt(t) ==
    build_agent_prompt(t.payload.issue_key, t.payload.mode, t.payload.pm_comment,
                       get_domain_config(t.config))

\* what the tool session answered call q of a run
OwnToolReply(t, q) ==
    LET at == CHOOSE x \in 1..Len(t.tool_replies) : t.tool_replies[x].n = q
    IN  t.tool_replies[at].reply

\* the result message of call q of a run, from the outcome of that call
OwnToolMessage(t, q) ==
    ToolMessage(t.tool_log[q].call,
                IF t.tool_outcomes[q].failed
                THEN ToolErrorResult(t.tool_log[q].call.name, t.tool_outcomes[q].detail)
                ELSE call_tool_text(OwnToolReply(t, q)))

\* message m of a run is its own: of its prompt, the assistant message of one
\* of its chat replies, or the result of one of its tool calls
OwnMessage(t, m) ==
    IF m <= 2 THEN t.messages[m] = OwnPrompt(t)[m]
    ELSE IF t.messages[m].role = "tool"
    THEN \E q \in 1..Len(t.tool_outcomes) :
             /\ t.tool_outcomes[q].at = m
             /\ t.messages[m] = OwnToolMessage(t, q)
    ELSE \E n \in 1..Len(t.replies) :
             /\ t.replies[n].tool_calls # <<>>
             /\ t.messages[m] = assistant_message_to_dict(t.replies[n])

\* C23: with two runs interleaved in every way, each message of a run is of
\* its own prompt, its own assistant turns or its own tool results, and the
\* sequences of two runs for different issues have no message in common
C23_DisjointTranscripts ==
    \A i \in DOMAIN task :
        /\ \A m \in 1..Len(task[i].messages) : OwnMessage(task[i], m)
        /\ \A j \in DOMAIN task \ {i} :
              \A m \in 1..Len(task[i].messages) :
                  \A x \in 1..Len(task[j].messages) :
                      task[i].messages[m] # task[j].messages[x]

\* two runs are under way at once, each with an assistant turn and a tool
\* result of its own, each started before the other ended
C23_Witness ==
    /\ DOMAIN task = PairSlots
    /\ \A i \in PairSlots :
          /\ task[i].pc \in {"await_llm", "await_tool"}
          /\ Len(task[i].messages) >= 4
          /\ Len(task[i].tool_outcomes) >= 1

----------------------------------------------------------------------------
\* the chat calls and the tool calls a run has begun and not yet seen end
OutstandingChatCalls(t) == t.llm_calls - Len(t.replies)
OutstandingToolCalls(t) == Len(t.tool_log) - Len(t.tool_outcomes)

\* C24: at every moment a run has at most one gateway call outstanding, a
\* chat completion or a tool invocation: one while it awaits that call, none
\* otherwise
C24_OneCallOutstanding ==
    \A i \in DOMAIN task :
        LET t == task[i]
        IN  /\ OutstandingChatCalls(t) = (IF t.pc = "await_llm" THEN 1 ELSE 0)
            /\ OutstandingToolCalls(t) = (IF t.pc = "await_tool" THEN 1 ELSE 0)
            /\ OutstandingChatCalls(t) + OutstandingToolCalls(t) <= 1

\* the second tool call of a turn of two is the one call outstanding
C24_Witness ==
    \E i \in DOMAIN task :
        /\ task[i].pc = "await_tool"
        /\ Len(task[i].response.tool_calls) = 2
        /\ task[i].k = 2
        /\ OutstandingToolCalls(task[i]) = 1
        /\ OutstandingChatCalls(task[i]) = 0

----------------------------------------------------------------------------
\* a run's step: its record changes
RunSteps == \E i \in DOMAIN task : task'[i] # task[i] /\ task[i].runs + task'[i].runs > 0

\* answer x of the tool session to a run went to the call it was asked by:
\* the outcome and the result message are those of that call and that answer
OwnOutcome(t, x) ==
    LET r == t.tool_replies[x]
        c == t.tool_log[r.n].call
        o == t.tool_outcomes[r.n]
        msg == t.messages[o.at]
    IN  /\ o.failed = (r.reply.kind = "raise" \/ r.reply.isError)
        /\ msg.role = "tool"
        /\ msg.tool_call_id = c.id
        /\ o.failed => /\ ContainsText(o.detail, c.name)
                        /\ ContainsText(o.detail, r.reply.content[1].text)
                        /\ ContainsText(msg.content, o.detail)
        /\ ~o.failed => /\ msg.content = r.reply.content[1].text
                         /\ ContainsText(msg.content, c.name)

----------------------------------------------------------------------------
RECURSIVE SumRuns(_)
\* entries into run_agent_loop over all the slots
SumRuns(slots) ==
    IF slots = {} THEN 0
    ELSE LET i == CHOOSE x \in slots : TRUE
         IN  task[i].runs + SumRuns(slots \ {i})

AcceptedTrigger(i) == task[i].http.code = "200"
AwaitsStart(i) == task[i].pc = "created"

\* C26: each accepted trigger dispatches one run and no trigger a second one:
\* a rejected trigger starts none, a run that failed or hit the iteration
\* limit stays finished after its one entry, and the runs started are as many
\* as the accepted triggers, less the tasks created and not yet run
C26_OneRunPerTrigger ==
    /\ \A i \in DOMAIN task :
          LET t == task[i]
          IN  /\ t.runs = (IF t.pc \in {"await_llm", "await_tool", "finished"} THEN 1 ELSE 0)
              /\ t.runs > 0 => AcceptedTrigger(i)
              /\ AwaitsStart(i) => AcceptedTrigger(i)
              /\ t.run \in {"raised", "max_iterations"} => t.pc = "finished" /\ t.runs = 1
    /\ SumRuns(DOMAIN task) =
          Cardinality({i \in DOMAIN task : AcceptedTrigger(i)})
          - Cardinality({i \in DOMAIN task : AwaitsStart(i)})

\* two triggers were accepted; the run of one hit the iteration limit, the
\* run of the other failed, and each was entered once
C26_Witness ==
    /\ DOMAIN task = PairSlots
    /\ \A i \in PairSlots : AcceptedTrigger(i) /\ task[i].pc = "finished" /\ task[i].runs = 1
    /\ \E i \in PairSlots : task[i].run = "max_iterations"
    /\ \E i \in PairSlots : task[i].run = "raised"
    /\ SumRuns(PairSlots) = 2

----------------------------------------------------------------------------
\* answer x of the tool session to a run is a result with the error flag
ErrorFlagged(t, x) ==
    t.tool_replies[x].reply.kind = "result" /\ t.tool_replies[x].reply.isError

\* C27: when the tool session returns a result with the error flag, call_tool
\* raises a failure whose message holds the tool name and the error text of
\* the result; the loop makes of it the tool-result message of that request,
\* which holds the error text, and goes on: to the next request of the turn,
\* or after the last one to the next chat call or the iteration-limit return
C27_ErrorFlagBecomesResult ==
    \A i \in DOMAIN task :
        LET t == task[i]
        IN  \A x \in 1..Len(t.tool_replies) :
                ErrorFlagged(t, x) =>
                    LET n == t.tool_replies[x].n
                        error_text == t.tool_replies[x].reply.content[1].text
                        c == t.tool_log[n]
                        o == t.tool_outcomes[n]
                        turn == t.replies[c.iteration + 1].tool_calls
                    IN  /\ o.failed
                        /\ ContainsText(o.detail, c.call.name)
                        /\ ContainsText(o.detail, error_text)
                        /\ t.messages[o.at].role = "tool"
                        /\ t.messages[o.at].tool_call_id = c.call.id
                        /\ ContainsText(t.messages[o.at].content, o.detail)
                        /\ ContainsText(t.messages[o.at].content, error_text)
                        /\ t.raised_by # "tool"
                        /\ IF c.k < Len(turn)
                           THEN /\ Len(t.tool_log) > n
                                /\ t.tool_log[n + 1].k = c.k + 1
                           ELSE \/ t.llm_calls > c.iteration + 1
                                \/ /\ t.run = "max_iterations"
                                   /\ c.iteration + 1 = MAX_AGENT_ITERATIONS

\* the first tool call of a run got a result with the error flag, and the
\* run went on to its second chat call
C27_Witness ==
    \E i \in DOMAIN task :
        /\ Len(task[i].tool_replies) >= 1
        /\ ErrorFlagged(task[i], 1)
        /\ task[i].tool_outcomes[1].failed
        /\ ContainsText(task[i].messages[4].content, <<"Issue not found">>)
        /\ task[i].llm_calls >= 2

----------------------------------------------------------------------------
\* the message at index m of a run is the assistant message of the chat reply
\* `raw`: its text, and its tool calls one for one with id, name and argument
\* text as they came
AssistantMessageOf(t, m, raw) ==
    LET msg == t.messages[m]
    IN  /\ DOMAIN msg = {"role", "content", "tool_calls"}
        /\ msg.role = "assistant"
        /\ msg.content = (IF raw.content = None THEN EmptyStr ELSE raw.content)
        /\ Len(msg.tool_calls) = Len(raw.tool_calls)
        /\ \A j \in 1..Len(raw.tool_calls) :
              /\ msg.tool_calls[j].id = raw.tool_calls[j].id
              /\ msg.tool_calls[j].type = "function"
              /\ msg.tool_calls[j].function.name = raw.tool_calls[j].function.name
              /\ msg.tool_calls[j].function.arguments =
                    raw.tool_calls[j].function.arguments

\* C28: the assistant message appended for a tool-calls reply has the role
\* assistant, the reply's text as content ("" when it has none) and a
\* tool_calls list of the reply's length and order, each entry with the id,
\* the name and the argument text of the reply's tool call, the text being
\* passed on as it came
C28_AssistantMessageFaithful ==
    \A i \in DOMAIN task :
        LET t == task[i]
        IN  \A q \in 1..Len(t.tool_log) :
                t.tool_log[q].k = 1 =>
                    AssistantMessageOf(t, t.tool_log[q].messages,
                                       t.replies[t.tool_log[q].iteration + 1])

\* an assistant message carries a text and, in its second tool call, an
\* argument text with spaces that decodes to the same value as the first
C28_Witness ==
    \E i \in DOMAIN task :
        /\ Len(task[i].messages) >= 3
        /\ task[i].messages[3].role = "assistant"
        /\ task[i].messages[3].content = <<"Let me look.">>
        /\ task[i].messages[3].tool_calls[1].function.arguments = ArgsKey
        /\ task[i].messages[3].tool_calls[2].function.arguments = ArgsKeySpaced
        /\ task[i].response.tool_calls[1].arguments = task[i].response.tool_calls[2].arguments

----------------------------------------------------------------------------
\* start() has not yet awaited list_tools
BeforeListTools ==
    lifespan \in {"init", "start_stdio", "start_session", "start_initialize",
                  "start_list_tools"}

\* start() returned with the catalog cached
CatalogCached == lifespan \in {"serving", "stop_aclose", "shutdown", "shutdown_failed"}

\* the function list a run passes to its chat calls names the cached tools,
\* one for one and in order
FromCache(t) ==
    /\ Len(t.tools) = Len(client_tools)
    /\ \A n \in 1..Len(client_tools) : t.tools[n].function.name = client_tools[n].name

\* C29: list_tools is requested once per start() and its answer cached: no
\* request before start() reaches it and one ever after, no step of a run
\* (the catalog read included) requests it or changes the cache, and at each
\* chat call the run passes the function list made from that cache
C29_ListToolsOnce ==
    /\ [](/\ list_tools_calls <= 1
          /\ BeforeListTools => list_tools_calls = 0 /\ client_tools = <<>>
          /\ CatalogCached => list_tools_calls = 1 /\ client_tools \in ServerCatalogs
          /\ \A i \in DOMAIN task : task[i].pc = "await_llm" => FromCache(task[i]))
    /\ [][RunSteps => /\ list_tools_calls' = list_tools_calls
                      /\ client_tools' = client_tools]_vars

\* a run makes its third chat call with the functions of a cached catalog of
\* two tools, after the one list_tools request
C29_Witness ==
    \E i \in DOMAIN task :
        /\ task[i].pc = "await_llm"
        /\ task[i].llm_calls = 3
        /\ list_tools_calls = 1
        /\ Len(client_tools) = 2
        /\ client_tools # ServerTools
        /\ FromCache(task[i])

----------------------------------------------------------------------------
\* the heading of the section each configuration field is rendered under
SectionHeading ==
    [ repo_url |-> "\n### Repository: ",
      tech_stack |-> "\n### Tech stack:\n",
      architecture_notes |-> "\n### Architecture:\n",
      key_modules |-> "\n### Key modules:\n",
      user_personas |-> "\n\n### Known user personas:\n",
      platforms |-> "\n\n### Target platforms: ",
      standards |-> "\n\n### Non-functional standards:\n" ]

\* the text that stands in for an empty field under a heading that stays
SectionPlaceholder ==
    [ user_personas |-> "  (none defined)",
      platforms |-> "N/A",
      standards |-> "  (none defined)" ]

\* the configuration a run loaded, and the system message it built from it
LoadedConfig(t) == get_domain_config(t.config)
SystemText(t) == t.messages[1].content

\* C30 as claimed: in the system message each of the seven sections
\* (personas, platforms, standards, repository URL, tech stack, architecture
\* notes, key modules) is there, heading included, exactly when its field is
\* not empty
C30_EmptySectionsOmitted ==
    \A i \in DOMAIN task :
        ReadCatalog(task[i]) =>
            \A f \in DOMAIN SectionHeading :
                Contains(SystemText(task[i]), SectionHeading[f])
                    <=> LoadedConfig(task[i])[f] # <<>>

\* C30, amended: the sections of the repository URL, the tech stack, the
\* architecture notes and the key modules are there, heading included,
\* exactly when their field is not empty; the headings of the personas, the
\* platforms and the standards are always there, followed by a placeholder
\* exactly when their field is empty
C30_SectionsByField ==
    \A i \in DOMAIN task :
        ReadCatalog(task[i]) =>
            /\ \A f \in DOMAIN SectionHeading \ DOMAIN SectionPlaceholder :
                  Contains(SystemText(task[i]), SectionHeading[f])
                      <=> LoadedConfig(task[i])[f] # <<>>
            /\ \A f \in DOMAIN SectionPlaceholder :
                  /\ Contains(SystemText(task[i]), SectionHeading[f])
                  /\ ContainsText(SystemText(task[i]),
                                  <<SectionHeading[f], SectionPlaceholder[f]>>)
                        <=> LoadedConfig(task[i])[f] = <<>>
            /\ LoadedConfig(task[i]).repo_url # <<>> =>
                  ContainsText(SystemText(task[i]),
                               <<SectionHeading.repo_url>> \o LoadedConfig(task[i]).repo_url)

\* a run loaded a file that sets the repository fields and no persona: its
\* system message has the tech stack section, no repository section, and the
\* personas heading over the placeholder
C30_Witness ==
    \E i \in DOMAIN task :
        /\ ReadCatalog(task[i])
        /\ task[i].config = "code"
        /\ Contains(SystemText(task[i]), SectionHeading.tech_stack)
        /\ ~Contains(SystemText(task[i]), SectionHeading.repo_url)
        /\ ContainsText(SystemText(task[i]),
                        <<SectionHeading.user_personas, SectionPlaceholder.user_personas>>)

----------------------------------------------------------------------------
\* the run ended at the iteration limit
AtCeiling(t) == t.pc = "finished" /\ t.run = "max_iterations"

\* every tool call of the last response of a run was made in the last
\* iteration and its result appended, after the assistant message of that
\* response, at the end of the sequence
LastTurnDone(t) ==
    LET last == t.replies[Len(t.replies)]
        n == Len(last.tool_calls)
        base == Len(t.messages) - n
        done == Len(t.tool_log) - n
    IN  /\ RequestsToolCalls(last)
        /\ done >= 0
        /\ Len(t.tool_outcomes) = Len(t.tool_log)
        /\ t.messages[base] = assistant_message_to_dict(last)
        /\ \A j \in 1..n :
              /\ t.tool_log[done + j].iteration = MAX_AGENT_ITERATIONS - 1
              /\ t.tool_log[done + j].k = j
              /\ t.tool_log[done + j].call.id = last.tool_calls[j].id
              /\ t.tool_log[done + j].messages >= base
              /\ t.tool_outcomes[done + j].at = base + j
              /\ t.messages[base + j].role = "tool"
              /\ t.messages[base + j].tool_call_id = last.tool_calls[j].id

\* C31: when a run ends at the iteration limit, call_tool was called for
\* every tool call of the last (limit-th) response and its result message
\* appended before the return; these results come after everything a chat
\* call was given, and no chat call follows: the run made the limit's number
\* of chat calls, each answered, and does nothing more
C31_LastResultsUnread ==
    /\ [](\A i \in DOMAIN task :
            AtCeiling(task[i]) =>
                /\ Len(task[i].replies) = MAX_AGENT_ITERATIONS
                /\ task[i].llm_calls = MAX_AGENT_ITERATIONS
                /\ Len(task[i].messages) = 2 + TurnMessages(task[i].replies)
                /\ LastTurnDone(task[i]))
    /\ [][\A i \in DOMAIN task : AtCeiling(task[i]) => task'[i] = task[i]]_vars

\* a run ended at the iteration limit with the result of its last tool call
\* as the last message
C31_Witness ==
    \E i \in DOMAIN task :
        /\ AtCeiling(task[i])
        /\ LastTurnDone(task[i])
        /\ task[i].messages[Len(task[i].messages)].role = "tool"
        /\ task[i].tool_outcomes[Len(task[i].tool_outcomes)].at = Len(task[i].messages)
        /\ ~task[i].tool_outcomes[Len(task[i].tool_outcomes)].failed

----------------------------------------------------------------------------
\* the chat gateway answered with tool calls of which one has an argument
\* text that does not decode
UndecodableReply(reply) ==
    /\ reply.kind = "message"
    /\ \E j \in 1..Len(reply.tool_calls) :
          reply.tool_calls[j].function.arguments = ArgsTruncated

\* C32: a chat response with a tool call whose arguments do not decode is a
\* failure of the chat call: it is the run's last response, the run raises
\* from the chat call and its wrapper logs it; no tool call of that response
\* is made, the decodable ones before the bad one included, and no assistant
\* message is appended for it
C32_UndecodableArgumentsAbort ==
    \A i \in DOMAIN task :
        LET t == task[i]
        IN  \A n \in 1..Len(t.replies) :
                UndecodableReply(t.replies[n]) =>
                    /\ n = Len(t.replies)
                    /\ t.pc = "finished"
                    /\ t.run = "raised"
                    /\ t.raised_by = "llm"
                    /\ t.result = None
                    /\ t.logged = 1
                    /\ \A q \in 1..Len(t.tool_log) : t.tool_log[q].iteration < n - 1
                    /\ Len(t.tool_outcomes) = Len(t.tool_log)
                    /\ Len(t.messages) = 2 + TurnMessages(SubSeq(t.replies, 1, n - 1))
                    /\ \A m \in 1..Len(t.messages) :
                          t.messages[m].role = "assistant" =>
                              \A j \in 1..Len(t.messages[m].tool_calls) :
                                  t.messages[m].tool_calls[j].function.arguments
                                      # ArgsTruncated

\* the first response of a run lists a decodable tool call and then one that
\* does not decode: the run ended with its prompt alone and no tool call
C32_Witness ==
    \E i \in DOMAIN task :
        /\ Len(task[i].replies) = 1
        /\ UndecodableReply(task[i].replies[1])
        /\ JsonDecodes(task[i].replies[1].tool_calls[1].function.arguments)
        /\ task[i].run = "raised"
        /\ task[i].tool_log = <<>>
        /\ Len(task[i].messages) = 2

----------------------------------------------------------------------------
\* call q of a run ended in call_tool's not-connected error, and its result
\* message says so
NotConnectedResult(t, q) ==
    /\ t.tool_outcomes[q].failed
    /\ t.tool_outcomes[q].detail = NotConnectedError
    /\ t.messages[t.tool_outcomes[q].at].role = "tool"
    /\ t.messages[t.tool_outcomes[q].at].tool_call_id = t.tool_log[q].call.id
    /\ ContainsText(t.messages[t.tool_outcomes[q].at].content, NotConnectedError)

\* the run was entered after stop() had returned
StartedAfterStop(t) == t.runs > 0 /\ t.after_stop

\* C33: stop() clears the session and the exit stack and leaves the cached
\* catalog as it was: after stop() the catalog is still the one list_tools
\* answered, a run entered after stop() passes the function list of the whole
\* catalog to its chat calls, and every tool call it makes ends at once in
\* the not-connected error, which becomes the result of that call
C33_StopKeepsCatalog ==
    /\ [](lifespan = "shutdown" =>
            /\ session = NoSession
            /\ exit_stack = NoExitStack
            /\ ~is_connected
            /\ client_tools \in ServerCatalogs)
    /\ [][(lifespan = "stop_aclose" \/ lifespan = "shutdown") => UNCHANGED client_tools]_vars
    /\ [](\A i \in DOMAIN task :
            StartedAfterStop(task[i]) /\ task[i].raised_by # "config" =>
                /\ task[i].tools = get_tools_as_openai_functions(client_tools)
                /\ Len(task[i].tools) = Len(client_tools)
                /\ task[i].pc # "await_tool"
                /\ Len(task[i].tool_outcomes) = Len(task[i].tool_log)
                /\ task[i].tool_replies = <<>>
                /\ \A q \in 1..Len(task[i].tool_log) : NotConnectedResult(task[i], q))

\* a run entered after stop() offered the two functions of the catalog and
\* went on to its second chat call with a not-connected result
C33_Witness ==
    \E i \in DOMAIN task :
        /\ StartedAfterStop(task[i])
        /\ lifespan = "shutdown"
        /\ Len(client_tools) = 2
        /\ Len(task[i].tools) = 2
        /\ task[i].llm_calls >= 2
        /\ Len(task[i].tool_log) >= 1
        /\ NotConnectedResult(task[i], 1)

----------------------------------------------------------------------------
\* stop() has begun
StopBegan == lifespan \in {"stop_aclose", "shutdown", "shutdown_failed"}

\* a step in which run i sends a request to the tool session
Dispatches(i) ==
    /\ task'[i].pc = "await_tool"
    /\ Len(task'[i].tool_log) > Len(task[i].tool_log)

\* C34 as claimed: once stop() has begun the probe is_connected reports false,
\* and no step of a run sends a request to the tool session any more: every
\* call_tool begun from then on has ended, in the not-connected error, by the
\* end of the step that made it
C34_NoDispatchOnceStopBegan ==
    [][/\ StopBegan' => session' = NoSession
       /\ StopBegan =>
             \A i \in DOMAIN task :
                 /\ ~Dispatches(i)
                 /\ \A q \in (Len(task[i].tool_log) + 1)..Len(task'[i].tool_log) :
                       /\ q <= Len(task'[i].tool_outcomes)
                       /\ task'[i].tool_outcomes[q].detail = NotConnectedError]_vars

============================================================================
